---- MODULE Spec2Model ----
(***************************************************************************)
(* Model of the runtime core of go-storage: the lazily initialised        *)
(* Manager (config.go: Manager.Disk / Manager.Close), the driver registry *)
(* (storage.go: Register / Open / Drivers), the config map parser of      *)
(* setup.go, the batch executor (BatchUpload / BatchDelete) and DeleteAll. *)
(***************************************************************************)
EXTENDS Integers, Sequences, FiniteSets, TLC

(***************************************************************************)
(* Bounds of the model.                                                    *)
(***************************************************************************)
NumProcs == 2          \* goroutines calling into one Manager
MaxBuilt == 2          \* Backends the factories may return in one run
MaxFactoryCalls == 3   \* factory invocations (failed ones included)
MaxCloses == 2         \* Manager.Close calls in one run

Procs == 1..NumProcs

(***************************************************************************)
(* Values.                                                                 *)
(***************************************************************************)
NoBackend == 0         \* a nil Storage / absent map entry
NoProc == 0            \* the RWMutex has no writer

\* Disk names a caller may pass: "" (the default), two configured disks and
\* one that the configuration does not contain.
DiskArgs == {"", "a", "b", "zz"}
DiskNames == {"a", "b", "zz"}

\* Driver names and factories (values of type Driver); NoFactory is a nil
\* Driver / an absent entry of the table.
DriverNames == {"local", "s3"}
Factories == {"f1", "f2"}
NoFactory == "nil"

\* Config.Storages: disk name -> StorageConfig.Driver
ConfigStorages == [a |-> "local", b |-> "s3"]
Configured == DOMAIN ConfigStorages
DefaultChoices == {"", "a", "zz"}

\* The generic map handed to Setup.  A key that is missing or holds a value
\* of another type than the one parseConfigMap asserts is Absent / not
\* present; a disk entry is a map (with or without a string "driver") or
\* some other value.
Absent == "<absent>"
NoDisks == [present |-> FALSE, entries |-> <<>>]
RawDisk(driver) == [isMap |-> TRUE, driver |-> driver]
RawScalar == [isMap |-> FALSE, driver |-> Absent]
GoodDisks == [present |-> TRUE,
              entries |-> [a |-> RawDisk("local"), b |-> RawDisk("s3")]]
WithScalar == [present |-> TRUE,
               entries |-> [a |-> RawDisk("local"), b |-> RawDisk("s3"),
                            c |-> RawScalar]]
BadDisks == [present |-> TRUE,
             entries |-> [a |-> RawDisk("local"), b |-> RawDisk(Absent)]]
OtherDisks == [present |-> TRUE, entries |-> [zz |-> RawDisk("local")]]
\* <<m["disks"], m["storages"]>>
RawShapes == {<<GoodDisks, NoDisks>>, <<NoDisks, GoodDisks>>, <<WithScalar, NoDisks>>,
              <<GoodDisks, OtherDisks>>, <<NoDisks, NoDisks>>, <<BadDisks, NoDisks>>}
RawConfigs ==
    {[default |-> d, disks |-> sh[1], storages |-> sh[2]] :
        d \in DefaultChoices \cup {Absent}, sh \in RawShapes}

NoConfig == [Default |-> "", Storages |-> <<>>]

\* parseConfigMap: "disks" is looked at first, "storages" second.
DisksRaw(m) == IF m.disks.present THEN m.disks ELSE m.storages

\* The entries parseConfigMap does not skip, and those of them that lack a
\* string "driver".
MapEntries(d) == {n \in DOMAIN d.entries : d.entries[n].isMap}
MissingDriver(d) == {n \in MapEntries(d) : d.entries[n].driver = Absent}

\* parseConfigMap(m): the error, or the Config (Options left out).
ParseConfigMapStrict(m) ==
    LET d == DisksRaw(m)
        def == IF m.default = Absent THEN "" ELSE m.default
    IN IF ~d.present
       THEN [err |-> "no 'disks' or 'storages' found in config", cfg |-> NoConfig]
       ELSE IF MissingDriver(d) # {}
       THEN [err |-> "disk missing 'driver'", cfg |-> NoConfig]
       ELSE IF def # "" /\ def \notin MapEntries(d)
       THEN [err |-> "default disk not configured", cfg |-> NoConfig]
       ELSE [err |-> "nil",
             cfg |-> [Default |-> def,
                      Storages |-> [n \in MapEntries(d) |-> d.entries[n].driver]]]
ParseConfigMap(m) ==
    LET d == DisksRaw(m)
    IN IF ~d.present
       THEN [err |-> "no 'disks' or 'storages' found in config", cfg |-> NoConfig]
       ELSE IF MissingDriver(d) # {}
       THEN [err |-> "disk missing 'driver'", cfg |-> NoConfig]
       ELSE [err |-> "nil",
             cfg |-> [Default |-> IF m.default = Absent THEN "" ELSE m.default,
                      Storages |-> [n \in MapEntries(d) |-> d.entries[n].driver]]]

\* The Configs Setup hands to NewManager.
ParsedConfigs ==
    {ParseConfigMap(m).cfg : m \in {r \in RawConfigs : ParseConfigMap(r).err = "nil"}}

NoError == [kind |-> "nil", disk |-> "", cause |-> ""]
ErrNoDefault == [kind |-> "NoDefault", disk |-> "", cause |-> ""]
ErrNotConfigured(n) == [kind |-> "NotConfigured", disk |-> n, cause |-> ""]
ErrOpen(n, cause) == [kind |-> "OpenFailed", disk |-> n, cause |-> cause]
ErrClose(n) == [kind |-> "CloseFailed", disk |-> n, cause |-> "close"]

VARIABLES
    config,        \* Manager.config: [Default, Storages]
    drivers,       \* registry table: driver name -> factory (NoFactory = unbound)
    storages,      \* Manager.storages: disk name -> Backend (NoBackend = absent)
    mu,            \* Manager.mu: [writer, readers]
    pc,            \* position of each goroutine
    loc,           \* locals and result of each goroutine's current call
    built,         \* history: Backends returned by factories, in order
    factoryCalls,  \* history: factory invocations per disk name
    closeCalls,    \* history: Manager.Close calls started
    quiet,         \* history: a Close has returned and no Disk call ran since
    unknownSeen,   \* history: disks for which Open found no driver
    \* --- one BatchUpload / BatchDelete call ---
    kind,          \* "upload" or "delete": which of the two functions runs
    nItems,        \* len(items) / len(keys)
    concurrency,   \* the concurrency argument as passed
    ctxDone,       \* ctx.Done() is closed
    bpc,           \* position of the calling goroutine
    idx,           \* the range loop's current item
    sem,           \* number of tokens in the sem channel
    wg,            \* the WaitGroup counter
    bmu,           \* the result mutex: [held, by]
    wpc,           \* position of the worker goroutine of each item
    outcome,       \* what each worker's Upload/Delete returned
    result,        \* the result: [Succeeded, Failed]
    ops,           \* history: Upload/Delete invocations per item
    lateAdmit,     \* history: items admitted although ctx was already done
    preCancelled,  \* history: ctx was done before the call started
    \* --- the driver registry (storage.go) ---
    driversMu,     \* driversMu: [writer, readers]
    rpc,           \* position of each goroutine inside Register / Open / Drivers
    rloc,          \* locals and outcome of each goroutine's registry call
    writes,        \* history: the Register bodies run, in order
    \* --- one DeleteAll call (with the batch variables above) ---
    hasList,       \* the backend implements AdvancedStorage
    backend,       \* whose List it is: "paged" (a cloud driver) or "local"
    nKeys,         \* number of keys under the prefix
    pageSize,      \* the most keys the backend returns in one page
    dpc,           \* position of the goroutine calling DeleteAll
    marker,        \* the local marker
    allKeys,       \* the local allKeys
    listCalls,     \* history: the List calls made, in order
    dresult,       \* what DeleteAll returned
    \* --- one Retry call ---
    retryMax,      \* maxAttempts
    retryCtx,      \* ctx.Done() is closed
    retryPc,       \* position of the goroutine calling Retry
    retryI,        \* the loop variable i
    retryLog,      \* history: what each invocation of fn returned (TRUE: nil)
    retryLastErr,  \* lastErr: number of the invocation whose error it holds
    retryDelay,    \* delay, an int64 of nanoseconds
    retryResult,   \* what Retry returned
    retryCancelledAt, \* history: invocations made when a cancellation woke the select
    \* --- one expandEnvVars call ---
    envIn,         \* data: the raw text
    envVal,        \* the environment: the value of the variable V
    envPieces,     \* history: the matches and the bytes between them
    envOut,        \* the text returned
    envPc,         \* "start", "done"
    \* --- one call of a configuration entry point ---
    cfgTree,       \* the configuration tree: the map, or what the file holds
    cfgFile,       \* the file the loaders read
    cfgKey,        \* the key passed to LoadConfigEmbeddedWithKey
    cfgEntry,      \* the entry point that was called, "none" before the call
    cfgResult,     \* what it returned
    defaultMgr,    \* the package-level default Manager
    \* --- one ProgressReader ---
    prTotal,       \* pr.total
    prHasFn,       \* pr.fn != nil
    prUploaded,    \* pr.uploaded
    prReads,       \* history: what the underlying Read calls returned
    prReturns,     \* history: what the Read calls returned
    prCalls,       \* history: the invocations of pr.fn
    \* --- the default instance ---
    managers,      \* the Managers Setup has made, in order: [config, storages]
    defaultAt,     \* defaultMgr as a pointer: which of them it is (0: nil)
    setups,        \* history: the Setup calls: [tree, err]
    wrappers,      \* the DiskWrappers made by Disk(name)
    dwPc,          \* position of each goroutine operating on a DiskWrapper
    dwLoc,         \* the operation of each such goroutine
    opLog,         \* history: the operations that returned, in order
    factoryLog     \* history: the factory invocations made through defaultMgr

mgrVars == <<config, drivers, storages, mu, pc, loc, built, factoryCalls, closeCalls,
             quiet, unknownSeen>>
batchVars == <<kind, nItems, concurrency, ctxDone, bpc, idx, sem, wg, bmu, wpc,
               outcome, result, ops, lateAdmit, preCancelled>>
regVars == <<driversMu, rpc, rloc, writes>>
delVars == <<hasList, backend, nKeys, pageSize, dpc, marker, allKeys, listCalls, dresult>>
retryVars == <<retryMax, retryCtx, retryPc, retryI, retryLog, retryLastErr, retryDelay,
               retryResult, retryCancelledAt>>
\* The helpers, which share no state with the Manager, the registry or the
\* batch functions.
envVars == <<envIn, envVal, envPieces, envOut, envPc>>
cfgVars == <<cfgTree, cfgFile, cfgKey, cfgEntry, cfgResult, defaultMgr>>
progVars == <<prTotal, prHasFn, prUploaded, prReads, prReturns, prCalls>>
dfltVars == <<managers, defaultAt, setups, wrappers, dwPc, dwLoc, opLog, factoryLog>>
auxVars == <<retryVars, envVars, cfgVars, progVars, dfltVars>>
\* What the actions of one component leave alone.
nonMgrVars == <<batchVars, regVars, delVars, auxVars>>
nonBatchVars == <<mgrVars, regVars, delVars, auxVars>>
nonRegVars == <<config, storages, mu, pc, loc, built, factoryCalls, closeCalls, quiet,
                unknownSeen, batchVars, delVars, auxVars>>
nonRetryVars == <<mgrVars, batchVars, regVars, delVars, envVars, cfgVars, progVars,
                 dfltVars>>
nonEnvVars == <<mgrVars, batchVars, regVars, delVars, retryVars, cfgVars, progVars,
                 dfltVars>>
nonCfgVars == <<mgrVars, batchVars, regVars, delVars, retryVars, envVars, progVars,
                 dfltVars>>
nonProgVars == <<mgrVars, batchVars, regVars, delVars, retryVars, envVars, cfgVars,
                 dfltVars>>
nonDfltVars == <<mgrVars, batchVars, regVars, delVars, retryVars, envVars, cfgVars,
                 progVars>>
vars == <<mgrVars, batchVars, regVars, delVars, auxVars>>

(***************************************************************************)
(* Helpers of the Manager.                                                 *)
(***************************************************************************)
\* make(map[string]Storage)
EmptyCache == [n \in DiskNames |-> NoBackend]

IdleLoc == [op |-> "none", arg |-> "", name |-> "", s |-> NoBackend,
            err |-> NoError, todo |-> {}, snapshot |-> {}, closedNow |-> {},
            failed |-> <<>>, startRetired |-> {}, invoked |-> FALSE,
            second |-> FALSE]

RangeOf(seq) == {seq[i] : i \in 1..Len(seq)}

\* Backends on which a Manager.Close that has already returned invoked Close.
Retired ==
    {i \in 1..Len(built) : built[i].closes > 0}
        \ UNION {loc[p].closedNow : p \in Procs}

\* if name == "" { name = m.config.Default }
ResolveNameIdentity(arg) == arg
ResolveName(arg) == IF arg = "" THEN config.Default ELSE arg

\* s, ok := m.storages[name]   (both the fast path and the re-check)
Cached(st, n) == st[n] # NoBackend

\* The re-check after m.mu.Lock().
DoubleCheckSkipped(st, n) == FALSE
DoubleCheck(st, n) == Cached(st, n)

\* Open: driver, ok := drivers[driverName]
RegisteredAlways(d) == TRUE
Registered(d) == drivers[d] # NoFactory

\* What Manager.Disk leaves in the cache once the factory has returned:
\* m.storages[name] = s on success, nothing on failure.
StoreResultNotCached(st, n, ok, id) == st
StoreResultPoisoned(st, n, ok, id) == [st EXCEPT ![n] = id]
StoreResult(st, n, ok, id) == IF ok THEN [st EXCEPT ![n] = id] ELSE st

\* fmt.Errorf("storage: failed to open disk %q: %w", name, err)
WrapOpenError(n, cause) == ErrOpen(n, cause)

\* Manager.Close: the range loop goes on whatever s.Close() returned.
RemainingShortCircuit(todo, n, ok) == IF ok THEN todo \ {n} ELSE {}
Remaining(todo, n, ok) == todo \ {n}

\* Manager.Close: lastErr = fmt.Errorf(...) on each failing close.
NextLastErrFirst(lastErr, n, ok) ==
    IF ok \/ lastErr # NoError THEN lastErr ELSE ErrClose(n)
NextLastErr(lastErr, n, ok) == IF ok THEN lastErr ELSE ErrClose(n)

\* Manager.Close: m.storages = make(map[string]Storage)
CacheAfterCloseKept(st) == st
CacheAfterClose(st) == EmptyCache

\* m.mu.Lock() goes through when no goroutine holds the lock, for writing or
\* for reading.
WriteLockFreeAlways(m) == TRUE
WriteLockFree(m) == m.writer = NoProc /\ m.readers = {}

\* The disks a Close error value names (one wrapped error: one disk).
Reports(err) == IF err.kind = "CloseFailed" THEN {err.disk} ELSE {}

TotalFactoryCalls == factoryCalls["a"] + factoryCalls["b"]

(***************************************************************************)
(* Manager.Disk                                                            *)
(***************************************************************************)
\* Entry: resolve the name; "" with no default fails at once.
DiskCall(p, arg) ==
    /\ pc[p] = "idle"
    /\ LET n == ResolveName(arg)
           l == [IdleLoc EXCEPT !.op = "disk", !.arg = arg, !.name = n,
                                !.startRetired = Retired]
       IN IF n = ""
          THEN /\ loc' = [loc EXCEPT ![p] = [l EXCEPT !.err = ErrNoDefault]]
               /\ pc' = [pc EXCEPT ![p] = "return"]
          ELSE /\ loc' = [loc EXCEPT ![p] = l]
               /\ pc' = [pc EXCEPT ![p] = "rlock"]
    /\ quiet' = FALSE
    /\ UNCHANGED nonMgrVars
    /\ UNCHANGED <<config, drivers, unknownSeen, storages, mu, built, factoryCalls, closeCalls>>

\* m.mu.RLock()
DiskRLock(p) ==
    /\ pc[p] = "rlock"
    /\ mu.writer = NoProc
    /\ mu' = [mu EXCEPT !.readers = @ \cup {p}]
    /\ pc' = [pc EXCEPT ![p] = "fast"]
    /\ UNCHANGED nonMgrVars
    /\ UNCHANGED <<config, drivers, unknownSeen, storages, loc, built, factoryCalls, closeCalls, quiet>>

\* if s, ok := m.storages[name]; ok { RUnlock; return s } ; RUnlock
DiskFastPath(p) ==
    /\ pc[p] = "fast"
    /\ mu' = [mu EXCEPT !.readers = @ \ {p}]
    /\ IF Cached(storages, loc[p].name)
       THEN /\ loc' = [loc EXCEPT ![p].s = storages[loc[p].name]]
            /\ pc' = [pc EXCEPT ![p] = "return"]
       ELSE /\ pc' = [pc EXCEPT ![p] = "lock"]
            /\ UNCHANGED loc
    /\ UNCHANGED nonMgrVars
    /\ UNCHANGED <<config, drivers, unknownSeen, storages, built, factoryCalls, closeCalls, quiet>>

\* return s, nil / return nil, err with no lock held: the caller has the
\* result and the goroutine is free for its next call.
DiskReturn(p) ==
    /\ pc[p] = "return"
    /\ pc' = [pc EXCEPT ![p] = "idle"]
    /\ loc' = [loc EXCEPT ![p] = IdleLoc]
    /\ UNCHANGED nonMgrVars
    /\ UNCHANGED <<config, drivers, unknownSeen, storages, mu, built, factoryCalls, closeCalls, quiet>>

\* m.mu.Lock()
DiskLock(p) ==
    /\ pc[p] = "lock"
    /\ WriteLockFree(mu)
    /\ mu' = [mu EXCEPT !.writer = p]
    /\ pc' = [pc EXCEPT ![p] = "check"]
    /\ UNCHANGED nonMgrVars
    /\ UNCHANGED <<config, drivers, unknownSeen, storages, loc, built, factoryCalls, closeCalls, quiet>>

\* The re-check under the write lock, then the config lookup.
DiskDoubleCheck(p) ==
    /\ pc[p] = "check"
    /\ LET n == loc[p].name
       IN IF DoubleCheck(storages, n)
          THEN /\ loc' = [loc EXCEPT ![p].s = storages[n]]
               /\ pc' = [pc EXCEPT ![p] = "unlock"]
          ELSE IF n \notin DOMAIN config.Storages
          THEN /\ loc' = [loc EXCEPT ![p].err = ErrNotConfigured(n)]
               /\ pc' = [pc EXCEPT ![p] = "unlock"]
          ELSE /\ pc' = [pc EXCEPT ![p] = "open"]
               /\ UNCHANGED loc
    /\ UNCHANGED nonMgrVars
    /\ UNCHANGED <<config, drivers, unknownSeen, storages, mu, built, factoryCalls, closeCalls, quiet>>

\* Open(cfg.Driver, cfg.Options): registry lookup, then the factory is invoked.
DiskOpen(p) ==
    /\ pc[p] = "open"
    /\ driversMu.writer = NoProc
    /\ LET n == loc[p].name
       IN IF ~Registered(config.Storages[n])
          THEN /\ loc' = [loc EXCEPT ![p].err = WrapOpenError(n, "UnknownDriver")]
               /\ pc' = [pc EXCEPT ![p] = "unlock"]
               /\ unknownSeen' = unknownSeen \cup {n}
               /\ UNCHANGED factoryCalls
          ELSE /\ TotalFactoryCalls < MaxFactoryCalls
               /\ factoryCalls' = [factoryCalls EXCEPT ![n] = @ + 1]
               /\ loc' = [loc EXCEPT ![p].invoked = TRUE]
               /\ pc' = [pc EXCEPT ![p] = "factory"]
               /\ UNCHANGED unknownSeen
    /\ UNCHANGED nonMgrVars
    /\ UNCHANGED <<config, drivers, storages, mu, built, closeCalls, quiet>>

\* The factory returns (s, nil) or (nil, err); m.storages[name] = s on success.
DiskFactoryReturn(p, ok) ==
    /\ pc[p] = "factory"
    /\ ok => Len(built) < MaxBuilt
    /\ LET n == loc[p].name
           id == Len(built) + 1
       IN /\ storages' = StoreResult(storages, n, ok, id)
          /\ built' = IF ok THEN Append(built, [name |-> n, closes |-> 0]) ELSE built
          /\ loc' = [loc EXCEPT ![p].s = IF ok THEN id ELSE NoBackend,
                                ![p].err = IF ok THEN NoError
                                           ELSE WrapOpenError(n, "FactoryError")]
    /\ pc' = [pc EXCEPT ![p] = "unlock"]
    /\ UNCHANGED nonMgrVars
    /\ UNCHANGED <<config, drivers, unknownSeen, mu, factoryCalls, closeCalls, quiet>>

\* defer m.mu.Unlock(), and the call returns (Disk and Close alike).
Unlock(p) ==
    /\ pc[p] = "unlock"
    /\ mu' = [mu EXCEPT !.writer = NoProc]
    /\ pc' = [pc EXCEPT ![p] = "idle"]
    /\ loc' = [loc EXCEPT ![p] = IdleLoc]
    /\ quiet' = IF loc[p].op = "close"
                THEN \A q \in Procs \ {p} : loc[q].op # "disk"
                ELSE quiet
    /\ UNCHANGED nonMgrVars
    /\ UNCHANGED <<config, drivers, unknownSeen, storages, built, factoryCalls, closeCalls>>

(***************************************************************************)
(* Manager.Close                                                           *)
(***************************************************************************)
\* m.mu.Lock(); the range loop starts over the current map.
CloseLock(p) ==
    /\ pc[p] = "idle"
    /\ closeCalls < MaxCloses
    /\ WriteLockFree(mu)
    /\ mu' = [mu EXCEPT !.writer = p]
    /\ closeCalls' = closeCalls + 1
    /\ LET names == {n \in DiskNames : Cached(storages, n)}
       IN loc' = [loc EXCEPT ![p] = [IdleLoc EXCEPT !.op = "close", !.todo = names,
                                       !.second = quiet,
                                       !.snapshot = {storages[n] : n \in names}]]
    /\ pc' = [pc EXCEPT ![p] = "closing"]
    /\ UNCHANGED nonMgrVars
    /\ UNCHANGED <<config, drivers, unknownSeen, storages, built, factoryCalls, quiet>>

\* One iteration of the range loop: s.Close() on some remaining entry.
CloseOne(p, n, ok) ==
    /\ pc[p] = "closing"
    /\ n \in loc[p].todo
    /\ LET b == storages[n]
       IN /\ built' = [built EXCEPT ![b].closes = @ + 1]
          /\ loc' = [loc EXCEPT ![p].todo = Remaining(@, n, ok),
                                ![p].closedNow = @ \cup {b},
                                ![p].failed = IF ok THEN @ ELSE Append(@, n),
                                ![p].err = NextLastErr(@, n, ok)]
    /\ UNCHANGED nonMgrVars
    /\ UNCHANGED <<config, drivers, unknownSeen, storages, mu, pc, factoryCalls, closeCalls, quiet>>

\* The loop is over: m.storages = make(...); return lastErr.
CloseFinish(p) ==
    /\ pc[p] = "closing"
    /\ loc[p].todo = {}
    /\ storages' = CacheAfterClose(storages)
    /\ pc' = [pc EXCEPT ![p] = "unlock"]
    /\ UNCHANGED nonMgrVars
    /\ UNCHANGED <<config, drivers, unknownSeen, mu, loc, built, factoryCalls, closeCalls, quiet>>

(***************************************************************************)
(* Specification of the Manager.                                           *)
(***************************************************************************)
MgrInit ==
    /\ config \in ParsedConfigs
    /\ drivers \in {[local |-> "f1", s3 |-> NoFactory], [local |-> "f1", s3 |-> "f2"]}
    /\ storages = EmptyCache
    /\ mu = [writer |-> NoProc, readers |-> {}]
    /\ pc = [p \in Procs |-> "idle"]
    /\ loc = [p \in Procs |-> IdleLoc]
    /\ built = <<>>
    /\ factoryCalls = [n \in Configured |-> 0]
    /\ closeCalls = 0
    /\ quiet = FALSE
    /\ unknownSeen = {}

MgrNext ==
    \E p \in Procs :
        \/ \E arg \in DiskArgs : DiskCall(p, arg)
        \/ DiskRLock(p)
        \/ DiskFastPath(p)
        \/ DiskReturn(p)
        \/ DiskLock(p)
        \/ DiskDoubleCheck(p)
        \/ DiskOpen(p)
        \/ \E ok \in BOOLEAN : DiskFactoryReturn(p, ok)
        \/ Unlock(p)
        \/ CloseLock(p)
        \/ \E n \in DiskNames, ok \in BOOLEAN : CloseOne(p, n, ok)
        \/ CloseFinish(p)

(***************************************************************************)
(* Properties of the Manager (specification Spec).                         *)
(***************************************************************************)
\* Backends the factories have returned for disk n.
BuiltIds(n) == {i \in 1..Len(built) : built[i].name = n}

\* Factory invocations for disk n that have not returned yet.
InFactory(n) == {p \in Procs : pc[p] = "factory" /\ loc[p].name = n}

\* No factory invocation for disk n has failed so far.
NoFailure(n) == factoryCalls[n] = Cardinality(BuiltIds(n)) + Cardinality(InFactory(n))

\* The Disk call of p has its result decided and is about to hand it over.
DiskDecided(p) == loc[p].op = "disk" /\ pc[p] \in {"return", "unlock"}
DiskGotBackend(p) == DiskDecided(p) /\ loc[p].err = NoError /\ loc[p].s # NoBackend

\* The Close call of p has finished its loop and reset the map.
CloseDecided(p) == loc[p].op = "close" /\ pc[p] = "unlock"

\* C1: while the factory of a configured disk has not failed and the Manager
\* has not been closed, concurrent first-time Disk calls for that disk cause
\* exactly one factory invocation and every caller that gets a Backend gets the
\* one Backend that invocation returned.
C1_SingleFactoryCall ==
    \A n \in Configured :
        (closeCalls = 0 /\ NoFailure(n)) =>
            /\ factoryCalls[n] <= 1
            /\ \A p \in Procs :
                  (DiskGotBackend(p) /\ loc[p].name = n) =>
                      /\ factoryCalls[n] = 1
                      /\ BuiltIds(n) = {loc[p].s}
                      /\ storages[n] = loc[p].s

\* A caller that missed the fast path, waited for the write lock and got the
\* Backend another caller had constructed in the meantime.
C1_Witness ==
    \E p \in Procs :
        /\ DiskGotBackend(p) /\ pc[p] = "unlock" /\ ~loc[p].invoked
        /\ closeCalls = 0
        /\ NoFailure(loc[p].name)
        /\ factoryCalls[loc[p].name] = 1

\* C5: with no Close so far, the factory of a disk has returned a Backend at
\* most once (whatever number of its invocations failed) and every Disk call
\* for that disk that returns without error returns that Backend; at any time
\* at most one Backend per disk has not been closed by the Manager.
C5_SameBackendUntilClose ==
    /\ \A n \in Configured :
          Cardinality({i \in BuiltIds(n) : built[i].closes = 0}) <= 1
    /\ closeCalls = 0 =>
          /\ \A n \in Configured : Cardinality(BuiltIds(n)) <= 1
          /\ \A p \in Procs : DiskGotBackend(p) => BuiltIds(loc[p].name) = {loc[p].s}

\* A fast-path return of the cached Backend of a disk whose factory had also
\* failed once before.
C5_Witness ==
    \E p \in Procs :
        /\ DiskGotBackend(p) /\ pc[p] = "return"
        /\ closeCalls = 0
        /\ factoryCalls[loc[p].name] >= 2

\* C6: a Disk call whose factory invocation fails returns an error that wraps
\* the disk name and leaves the cache as it was (the disk unresolved); a
\* factory failure is never served from the cache, so a later call invokes the
\* factory again, and a call whose invocation succeeds returns the new Backend
\* and has cached it.
C6_State ==
    /\ \A p \in Procs :
          (DiskDecided(p) /\ loc[p].err.kind = "OpenFailed"
                          /\ loc[p].err.cause = "FactoryError") =>
              /\ loc[p].err.disk = loc[p].name
              /\ loc[p].s = NoBackend
              /\ loc[p].invoked
              /\ ~Cached(storages, loc[p].name)
    /\ \A p \in Procs :
          (DiskDecided(p) /\ loc[p].invoked /\ loc[p].err = NoError) =>
              /\ loc[p].s = Len(built)
              /\ built[loc[p].s].name = loc[p].name
              /\ storages[loc[p].name] = loc[p].s
    /\ \A n \in DiskNames : Cached(storages, n) => storages[n] \in BuiltIds(n)

C6_Step ==
    \A p \in Procs :
        (pc[p] = "factory" /\ pc'[p] = "unlock" /\ loc'[p].err # NoError) =>
            storages' = storages

C6_FactoryFailureNotCached == []C6_State /\ [][C6_Step]_vars

\* A call whose factory invocation succeeded after an earlier invocation for
\* the same disk had failed.
C6_Witness ==
    \E p \in Procs :
        /\ DiskGotBackend(p) /\ loc[p].invoked
        /\ closeCalls = 0
        /\ factoryCalls[loc[p].name] >= 2
        /\ Cardinality(BuiltIds(loc[p].name)) = 1

\* C7: when Manager.Close has finished its loop it has invoked Close on every
\* Backend that was in the cache, on each exactly once, whether or not some of
\* these closes failed, and the cache is empty.
C7_CloseClosesAll ==
    \A p \in Procs :
        CloseDecided(p) =>
            /\ loc[p].closedNow = loc[p].snapshot
            /\ \A b \in loc[p].snapshot : built[b].closes = 1
            /\ storages = EmptyCache

\* A Close over two cached Backends of which the first one closed had failed.
C7_Witness ==
    \E p \in Procs :
        /\ CloseDecided(p)
        /\ Cardinality(loc[p].snapshot) = 2
        /\ Len(loc[p].failed) = 1
        /\ loc[p].err.disk # ""

C9_CloseIdempotent ==
    /\ quiet => storages = EmptyCache
    /\ \A p \in Procs :
          (loc[p].op = "close" /\ loc[p].second) =>
              /\ loc[p].snapshot = {}
              /\ loc[p].closedNow = {}
              /\ loc[p].err = NoError
              /\ storages = EmptyCache
    /\ \A b \in 1..Len(built) : built[b].closes <= 1

\* A second Close, right after a Close that closed two Backends.
C9_Witness ==
    \E p \in Procs :
        /\ CloseDecided(p) /\ loc[p].second
        /\ Cardinality({b \in 1..Len(built) : built[b].closes = 1}) = 2

\* C10: a Disk call that starts after a Close has returned never returns a
\* Backend that Close closed: the Backend it returns was constructed after
\* every Backend that Close closed, by a further invocation of the factory.
C10_FreshAfterClose ==
    \A p \in Procs :
        DiskGotBackend(p) =>
            /\ loc[p].s \notin loc[p].startRetired
            /\ loc[p].s \in BuiltIds(loc[p].name)
            /\ \A r \in loc[p].startRetired : loc[p].s > r
            /\ \A r \in loc[p].startRetired \cap BuiltIds(loc[p].name) :
                  factoryCalls[loc[p].name] >= 2

\* A Disk call started after a Close that had closed the Backend of the same
\* disk; the call invoked the factory and got a new Backend.
C10_Witness ==
    \E p \in Procs :
        /\ DiskGotBackend(p) /\ loc[p].invoked
        /\ \E r \in loc[p].startRetired : built[r].name = loc[p].name

\* C13, the part about states: a Disk("") call works on the disk named by
\* config.Default, exactly as Disk(config.Default) does: with no Close so far
\* the two return the same Backend, the one in the cache entry of the default
\* disk, built by one factory invocation if none failed; with an empty
\* default, Disk("") returns the NoDefault error, no Backend, and has invoked
\* no factory.  Only that case gives the NoDefault error.
C13_State ==
    /\ \A p \in Procs :
          (DiskDecided(p) /\ loc[p].arg = "") =>
              IF config.Default = ""
              THEN /\ loc[p].err = ErrNoDefault
                   /\ loc[p].s = NoBackend
                   /\ ~loc[p].invoked
                   /\ pc[p] = "return"
              ELSE /\ loc[p].name = config.Default
                   /\ loc[p].err # ErrNoDefault
                   /\ DiskGotBackend(p) => loc[p].s \in BuiltIds(config.Default)
    /\ \A p \in Procs :
          (DiskDecided(p) /\ loc[p].err = ErrNoDefault) =>
              loc[p].arg = "" /\ config.Default = ""
    /\ \A p, q \in Procs :
          (/\ DiskGotBackend(p) /\ loc[p].arg = ""
           /\ DiskGotBackend(q) /\ loc[q].arg = config.Default
           /\ closeCalls = 0) =>
              /\ loc[p].s = loc[q].s
              /\ storages[config.Default] = loc[p].s
              /\ NoFailure(config.Default) => factoryCalls[config.Default] = 1

\* C13, the part about steps: the Disk("") call that fails for want of a
\* default touches neither the cache nor any factory nor the lock.
C13_Step ==
    \A p \in Procs :
        (pc[p] = "idle" /\ loc'[p].op = "disk" /\ loc'[p].err = ErrNoDefault) =>
            /\ storages' = storages
            /\ factoryCalls' = factoryCalls
            /\ built' = built
            /\ mu' = mu

\* C13: Manager.Disk("") behaves exactly like Manager.Disk(config.Default)
\* (same cache entry, same Backend, one factory invocation between them), and
\* with an empty default it fails with NoDefaultConfigured without invoking a
\* factory and without changing the cache.
C13_EmptyNameIsDefault == []C13_State /\ [][C13_Step]_vars

\* One goroutine called Disk(""), the other Disk("a"), the default being "a":
\* one built the Backend, the other is handed the same one.
C13_Witness ==
    /\ config.Default = "a"
    /\ DiskGotBackend(1) /\ loc[1].arg = ""
    /\ DiskGotBackend(2) /\ loc[2].arg = "a"
    /\ loc[1].s = loc[2].s
    /\ factoryCalls["a"] = 1
    /\ closeCalls = 0

\* A raw config whose disks parse and whose default is a non-empty name that
\* is not among them.
DanglingDefault(m) ==
    /\ DisksRaw(m).present
    /\ MissingDriver(DisksRaw(m)) = {}
    /\ m.default \notin {Absent, ""}
    /\ m.default \notin MapEntries(DisksRaw(m))

\* C14, the part about states: parseConfigMap accepts a config with a
\* dangling default and keeps the default as given; a Disk call whose resolved
\* name is not a key of config.Storages returns the NotConfigured error for
\* that name under the write lock, with no Backend and no factory invoked,
\* and such a name never has a cache entry.
C14_State ==
    /\ \A m \in RawConfigs :
          DanglingDefault(m) =>
              /\ ParseConfigMap(m).err = "nil"
              /\ ParseConfigMap(m).cfg.Default = m.default
    /\ \A p \in Procs :
          (DiskDecided(p) /\ loc[p].name # ""
                          /\ loc[p].name \notin DOMAIN config.Storages) =>
              /\ loc[p].err = ErrNotConfigured(loc[p].name)
              /\ loc[p].s = NoBackend
              /\ ~loc[p].invoked
              /\ pc[p] = "unlock"
    /\ \A p \in Procs :
          (DiskDecided(p) /\ loc[p].err.kind = "NotConfigured") =>
              loc[p].name \notin DOMAIN config.Storages
    /\ \A n \in DiskNames \ DOMAIN config.Storages : ~Cached(storages, n)

\* C14, the part about steps: no step of a Disk call for an unconfigured
\* name changes the cache or invokes a factory.
C14_Step ==
    \A p \in Procs :
        (/\ loc'[p].op = "disk"
         /\ loc'[p].name \notin DOMAIN config.Storages
         /\ pc'[p] # pc[p]) =>
            /\ storages' = storages
            /\ factoryCalls' = factoryCalls
            /\ built' = built

\* C14: Disk(name) for a non-empty name absent from the config fails with
\* DiskNotConfigured, invokes no factory and leaves the cache unchanged; a
\* dangling non-empty default is accepted when the config is parsed and the
\* Manager built, and is only rejected, the same way, by Disk("").
C14_NotConfigured == []C14_State /\ [][C14_Step]_vars

\* The Manager was built with default "zz", which is no disk, and a Disk("")
\* call has just been refused.
C14_Witness ==
    \E p \in Procs :
        /\ config.Default = "zz"
        /\ DiskDecided(p)
        /\ loc[p].arg = ""
        /\ loc[p].err = ErrNotConfigured("zz")

\* No method of the Manager is executing.
MgrAtRest == \A p \in Procs : pc[p] = "idle"

\* The Backends the cache holds.
InCache == {storages[n] : n \in {d \in DiskNames : Cached(storages, d)}}

\* C34: whenever no method of the Manager is executing, every Backend a
\* factory has returned to the Manager is in the cache or has had Close
\* invoked on it by the Manager.
C34_NoBackendDropped ==
    MgrAtRest => \A b \in 1..Len(built) : b \in InCache \/ built[b].closes > 0

\* Two Backends were built: the first has been closed and has left the
\* cache, the second is cached.
C34_Witness ==
    /\ MgrAtRest
    /\ Len(built) = 2
    /\ built[1].closes > 0
    /\ 1 \notin InCache
    /\ 2 \in InCache

\* C35 as stated: the Backend a Disk call is about to hand to its caller is
\* never one on which the Manager has already invoked Close.
C35_NeverHandsOutClosed ==
    \A p \in Procs : DiskGotBackend(p) => built[loc[p].s].closes = 0

\* The goroutines whose factory invocation is in progress.
FactoryRunning == {q \in Procs : pc[q] = "factory"}

\* The Disk call of p has resolved to a non-empty name and has not returned.
DiskPending(p) == loc[p].op = "disk" /\ loc[p].name # "" /\ pc[p] # "idle"

C36_State ==
    /\ Cardinality(FactoryRunning) <= 1
    /\ \A q \in FactoryRunning :
          /\ mu = [writer |-> q, readers |-> {}]
          /\ \A p \in Procs \ {q} :
                DiskPending(p) =>
                    \/ pc[p] \in {"rlock", "lock"}
                    \/ pc[p] = "return" /\ loc[p].s # NoBackend /\ ~loc[p].invoked

\* C36, the part about steps: while a factory invocation is in progress, a
\* Disk call waiting for a lock stays where it is, the cache does not change
\* and no Close begins.
C36_Step ==
    \A q \in FactoryRunning :
        pc'[q] = "factory" =>
            /\ storages' = storages
            /\ \A p \in Procs \ {q} :
                  /\ pc[p] \in {"rlock", "lock"} => pc'[p] = pc[p]
                  /\ loc'[p].op # "close"

MaxItems == 3          \* longest item list tried
MaxConc == 2           \* largest concurrency argument tried

MainGoroutine == 0     \* holder id of the calling goroutine (workers: item index)
Items == 1..nItems
Workers == 1..MaxItems
ConcurrencyChoices == (0 - 1)..MaxConc

FreeMu == [held |-> FALSE, by |-> MainGoroutine]
HeldBy(g) == [held |-> TRUE, by |-> g]
EmptyResult == [Succeeded |-> <<>>, Failed |-> <<>>]

\* if concurrency <= 0 { concurrency = len(items) }; sem := make(chan struct{}, concurrency)
SemCapPlusOne == (IF concurrency <= 0 THEN nItems ELSE concurrency) + 1
SemCapSerial == IF concurrency <= 0 THEN 1 ELSE concurrency
SemCapUnbuffered == IF concurrency <= 0 THEN 0 ELSE concurrency
SemCap == IF concurrency <= 0 THEN nItems ELSE concurrency

\* case sem <- struct{}{}: the send can proceed while the buffer is not full.
SlotFreeAlways(n, cap) == TRUE
SlotFree(n, cap) == n < cap

\* case <-ctx.Done(): the receive can proceed once the context is done.
DoneReady == ctxDone

\* result.Failed = append(result.Failed, BatchError{Key: ..., Err: ...})
RecordFailed(res, i, e) == [res EXCEPT !.Failed = Append(@, [Key |-> i, Err |-> e])]

\* result.Succeeded = append(result.Succeeded, ...)
RecordSucceeded(res, i) == [res EXCEPT !.Succeeded = Append(@, i)]

\* The cancellation branch of the select: Err: ctx.Err()
RecordCancelledDropped(res, i) == res
RecordCancelled(res, i) == RecordFailed(res, i, "canceled")

\* The worker's if err != nil { Failed } else { Succeeded }
RecordOutcomeFailureLost(res, i, ok) == IF ok THEN RecordSucceeded(res, i) ELSE res
RecordOutcome(res, i, ok) ==
    IF ok THEN RecordSucceeded(res, i) ELSE RecordFailed(res, i, "operr")

InFlight == {i \in Workers : wpc[i] = "running"}

\* wg.Wait() returns once the counter is zero.
WaitOverAlways(n) == TRUE
WaitOver(n) == n = 0

\* result := &BatchUploadResult{}; the concurrency default; sem; wg.
BatchCall ==
    /\ bpc = "start"
    /\ result' = EmptyResult
    /\ sem' = 0
    /\ wg' = 0
    /\ idx' = 1
    /\ preCancelled' = ctxDone
    /\ bpc' = "loop"
    /\ UNCHANGED nonBatchVars
    /\ UNCHANGED <<kind, nItems, concurrency, ctxDone, bmu, wpc, outcome, ops, lateAdmit>>

\* select picks case <-ctx.Done()
SelectDone ==
    /\ bpc = "loop"
    /\ idx <= nItems
    /\ DoneReady
    /\ bpc' = "mulock"
    /\ UNCHANGED nonBatchVars
    /\ UNCHANGED <<kind, nItems, concurrency, ctxDone, idx, sem, wg, bmu, wpc,
                   outcome, result, ops, lateAdmit, preCancelled>>

\* mu.Lock() in the cancellation branch
MainLock ==
    /\ bpc = "mulock"
    /\ ~bmu.held
    /\ bmu' = HeldBy(MainGoroutine)
    /\ bpc' = "append"
    /\ UNCHANGED nonBatchVars
    /\ UNCHANGED <<kind, nItems, concurrency, ctxDone, idx, sem, wg, wpc,
                   outcome, result, ops, lateAdmit, preCancelled>>

\* result.Failed = append(...); mu.Unlock(); continue
MainAppend ==
    /\ bpc = "append"
    /\ result' = RecordCancelled(result, idx)
    /\ bmu' = FreeMu
    /\ idx' = idx + 1
    /\ bpc' = "loop"
    /\ UNCHANGED nonBatchVars
    /\ UNCHANGED <<kind, nItems, concurrency, ctxDone, sem, wg, wpc,
                   outcome, ops, lateAdmit, preCancelled>>

\* select picks case sem <- struct{}{}; then wg.Add(1); go func(item){...}(item)
Admit ==
    /\ bpc = "loop"
    /\ idx <= nItems
    /\ SlotFree(sem, SemCap)
    /\ sem' = sem + 1
    /\ wg' = wg + 1
    /\ wpc' = [wpc EXCEPT ![idx] = "spawned"]
    /\ lateAdmit' = IF ctxDone THEN lateAdmit \cup {idx} ELSE lateAdmit
    /\ idx' = idx + 1
    /\ UNCHANGED nonBatchVars
    /\ UNCHANGED <<kind, nItems, concurrency, ctxDone, bpc, bmu,
                   outcome, result, ops, preCancelled>>

\* The range loop is over: wg.Wait() is entered.
LoopExit ==
    /\ bpc = "loop"
    /\ idx > nItems
    /\ bpc' = "wait"
    /\ UNCHANGED nonBatchVars
    /\ UNCHANGED <<kind, nItems, concurrency, ctxDone, idx, sem, wg, bmu, wpc,
                   outcome, result, ops, lateAdmit, preCancelled>>

\* wg.Wait() returns; return result
WaitReturn ==
    /\ bpc = "wait"
    /\ WaitOver(wg)
    /\ bpc' = "returned"
    /\ UNCHANGED nonBatchVars
    /\ UNCHANGED <<kind, nItems, concurrency, ctxDone, idx, sem, wg, bmu, wpc,
                   outcome, result, ops, lateAdmit, preCancelled>>

\* The worker calls s.Upload(ctx, ...) / s.Delete(ctx, key).
WorkerInvoke(i) ==
    /\ wpc[i] = "spawned"
    /\ ops' = [ops EXCEPT ![i] = @ + 1]
    /\ wpc' = [wpc EXCEPT ![i] = "running"]
    /\ UNCHANGED nonBatchVars
    /\ UNCHANGED <<kind, nItems, concurrency, ctxDone, bpc, idx, sem, wg, bmu,
                   outcome, result, lateAdmit, preCancelled>>

\* Upload / Delete returns, with or without an error.
WorkerOpReturn(i, ok) ==
    /\ wpc[i] = "running"
    /\ outcome' = [outcome EXCEPT ![i] = IF ok THEN "ok" ELSE "err"]
    /\ wpc' = [wpc EXCEPT ![i] = "mulock"]
    /\ UNCHANGED nonBatchVars
    /\ UNCHANGED <<kind, nItems, concurrency, ctxDone, bpc, idx, sem, wg, bmu,
                   result, ops, lateAdmit, preCancelled>>

\* mu.Lock() in the worker
WorkerLock(i) ==
    /\ wpc[i] = "mulock"
    /\ ~bmu.held
    /\ bmu' = HeldBy(i)
    /\ wpc' = [wpc EXCEPT ![i] = "append"]
    /\ UNCHANGED nonBatchVars
    /\ UNCHANGED <<kind, nItems, concurrency, ctxDone, bpc, idx, sem, wg,
                   outcome, result, ops, lateAdmit, preCancelled>>

\* The append to Failed or Succeeded; mu.Unlock()
WorkerAppend(i) ==
    /\ wpc[i] = "append"
    /\ result' = RecordOutcome(result, i, outcome[i] = "ok")
    /\ bmu' = FreeMu
    /\ wpc' = [wpc EXCEPT ![i] = "release"]
    /\ UNCHANGED nonBatchVars
    /\ UNCHANGED <<kind, nItems, concurrency, ctxDone, bpc, idx, sem, wg,
                   outcome, ops, lateAdmit, preCancelled>>

\* defer func() { <-sem }()
WorkerRelease(i) ==
    /\ wpc[i] = "release"
    /\ sem' = sem - 1
    /\ wpc' = [wpc EXCEPT ![i] = "wgdone"]
    /\ UNCHANGED nonBatchVars
    /\ UNCHANGED <<kind, nItems, concurrency, ctxDone, bpc, idx, wg, bmu,
                   outcome, result, ops, lateAdmit, preCancelled>>

\* defer wg.Done()
WorkerDone(i) ==
    /\ wpc[i] = "wgdone"
    /\ wg' = wg - 1
    /\ wpc' = [wpc EXCEPT ![i] = "done"]
    /\ UNCHANGED nonBatchVars
    /\ UNCHANGED <<kind, nItems, concurrency, ctxDone, bpc, idx, sem, bmu,
                   outcome, result, ops, lateAdmit, preCancelled>>

\* The caller's cancel(): ctx.Done() is closed, at any moment.
Cancel ==
    /\ ~ctxDone
    /\ ctxDone' = TRUE
    /\ UNCHANGED nonBatchVars
    /\ UNCHANGED <<kind, nItems, concurrency, bpc, idx, sem, wg, bmu, wpc,
                   outcome, result, ops, lateAdmit, preCancelled>>

BatchInit ==
    /\ kind \in {"upload", "delete"}
    /\ nItems \in 0..MaxItems
    /\ concurrency \in ConcurrencyChoices
    /\ ctxDone = FALSE
    /\ bpc = "start"
    /\ idx = 1
    /\ sem = 0
    /\ wg = 0
    /\ bmu = FreeMu
    /\ wpc = [i \in Workers |-> "none"]
    /\ outcome = [i \in Workers |-> "none"]
    /\ result = EmptyResult
    /\ ops = [i \in Workers |-> 0]
    /\ lateAdmit = {}
    /\ preCancelled = FALSE

BatchNext ==
    \/ BatchCall
    \/ SelectDone
    \/ MainLock
    \/ MainAppend
    \/ Admit
    \/ LoopExit
    \/ WaitReturn
    \/ \E i \in Workers : WorkerInvoke(i)
    \/ \E i \in Workers, ok \in BOOLEAN : WorkerOpReturn(i, ok)
    \/ \E i \in Workers : WorkerLock(i)
    \/ \E i \in Workers : WorkerAppend(i)
    \/ \E i \in Workers : WorkerRelease(i)
    \/ \E i \in Workers : WorkerDone(i)
    \/ Cancel

(***************************************************************************)
(* Properties of BatchUpload / BatchDelete (specification SpecBatch).      *)
(***************************************************************************)
\* The items a result accounts for, with multiplicity.
Accounted(res) == res.Succeeded \o [k \in 1..Len(res.Failed) |-> res.Failed[k].Key]
Occurrences(seq, i) == Cardinality({k \in 1..Len(seq) : seq[k] = i})

\* C2: the returned result has |Succeeded| + |Failed| = N and holds every
\* input item exactly once, for every N, every concurrency value (<= 0
\* included), every mix of outcomes and every moment of cancellation; while
\* the call runs no item is recorded twice.
C2_EveryItemAccountedOnce ==
    /\ \A i \in Workers : Occurrences(Accounted(result), i) <= 1
    /\ bpc = "returned" =>
          /\ Len(result.Succeeded) + Len(result.Failed) = nItems
          /\ \A i \in Items : Occurrences(Accounted(result), i) = 1
          /\ \A k \in 1..Len(Accounted(result)) : Accounted(result)[k] \in Items

\* A returned batch of three items: one succeeded, one failed in the backend
\* and one was refused because of the cancellation.
C2_Witness ==
    /\ bpc = "returned"
    /\ nItems = 3
    /\ Len(result.Succeeded) = 1
    /\ \E k \in 1..Len(result.Failed) : result.Failed[k].Err = "canceled"
    /\ \E k \in 1..Len(result.Failed) : result.Failed[k].Err = "operr"

\* C3 as stated: an item whose admission is decided after ctx is done is
\* never admitted; if ctx was done before the call, all N items are failed
\* with the cancellation error and no operation is invoked.
C3_NoAdmissionAfterCancel ==
    /\ lateAdmit = {}
    /\ (preCancelled /\ bpc = "returned") =>
          /\ Len(result.Failed) = nItems
          /\ \A k \in 1..Len(result.Failed) : result.Failed[k].Err = "canceled"
          /\ \A i \in Workers : ops[i] = 0

\* C4: with concurrency C >= 1 at most C operations are in flight; in general
\* the workers holding a slot never outnumber the capacity of sem.
C4_BoundedInFlight ==
    /\ concurrency >= 1 => Cardinality(InFlight) <= concurrency
    /\ sem <= SemCap
    /\ sem = Cardinality({i \in Workers :
                            wpc[i] \in {"spawned", "running", "mulock", "append", "release"}})

\* Three items with concurrency 2: two operations in flight and the loop
\* waiting for a slot for the third item.
C4_Witness ==
    /\ concurrency = 2
    /\ nItems = 3
    /\ Cardinality(InFlight) = 2
    /\ bpc = "loop"
    /\ idx = 3
    /\ ~ctxDone

\* The workers whose Upload/Delete has been invoked, and those whose outcome
\* has been appended to the result.
Invoked == {i \in Workers : wpc[i] \in {"running", "mulock", "append", "release",
                                         "wgdone", "done"}}
Recorded == {i \in Workers : wpc[i] \in {"release", "wgdone", "done"}}
FailedAs(res, i, e) ==
    Cardinality({k \in 1..Len(res.Failed) : res.Failed[k] = [Key |-> i, Err |-> e]})
FailedAtAll(res, i) ==
    Cardinality({k \in 1..Len(res.Failed) : res.Failed[k].Key = i})

\* C16: every admitted item has its operation invoked exactly once and its
\* one entry in the result is that invocation's outcome (Succeeded, or Failed
\* with the operation's error), whatever happens to the other items and
\* whenever the cancellation arrives after the admission; an item that was
\* not admitted has no invocation; when the call returns every admitted item
\* has been invoked and recorded, and with no cancellation all N are.
C16_AdmittedRunsOnce ==
    /\ \A i \in Workers :
          /\ ops[i] = IF i \in Invoked THEN 1 ELSE 0
          /\ (i \in Recorded /\ outcome[i] = "ok") =>
                /\ Occurrences(result.Succeeded, i) = 1
                /\ FailedAtAll(result, i) = 0
          /\ (i \in Recorded /\ outcome[i] = "err") =>
                /\ FailedAs(result, i, "operr") = 1
                /\ FailedAtAll(result, i) = 1
                /\ Occurrences(result.Succeeded, i) = 0
          /\ (wpc[i] # "none" /\ i \notin Recorded) =>
                Occurrences(Accounted(result), i) = 0
    /\ bpc = "returned" =>
          /\ \A i \in Workers : wpc[i] # "none" => (i \in Recorded /\ ops[i] = 1)
          /\ ~ctxDone => \A i \in Items : ops[i] = 1

\* A returned batch that was cancelled while it ran: items 1 and 2 had been
\* admitted before and ran to their end, one succeeding, one failing; item 3
\* was refused.
C16_Witness ==
    /\ bpc = "returned"
    /\ nItems = 3
    /\ ctxDone /\ ~preCancelled /\ lateAdmit = {}
    /\ result.Succeeded = <<1>>
    /\ FailedAs(result, 2, "operr") = 1
    /\ FailedAs(result, 3, "canceled") = 1
    /\ ops = [i \in Workers |-> IF i \in {1, 2} THEN 1 ELSE 0]

\* C17, the part about states: once the call has returned no worker is left
\* between its start and its end: nothing is in flight, no slot is taken,
\* the WaitGroup is at zero and the result mutex is free.
C17_State ==
    bpc = "returned" =>
        /\ \A i \in Workers : wpc[i] \in {"none", "done"}
        /\ InFlight = {}
        /\ wg = 0
        /\ sem = 0
        /\ ~bmu.held

\* C17, the part about steps: after the return no step changes the result.
C17_Step == bpc = "returned" => result' = result

\* C17: BatchUpload/BatchDelete return only after every item has reached a
\* terminal state: at the return nothing they started is still in flight and
\* the result lists are never modified afterwards.
C17_ReturnsAfterAll == []C17_State /\ [][C17_Step]_vars

\* A returned batch of three items with two slots, all three invoked.
C17_Witness ==
    /\ bpc = "returned"
    /\ nItems = 3
    /\ concurrency = 2
    /\ \A i \in Items : ops[i] = 1 /\ wpc[i] = "done"
    /\ Len(result.Succeeded) + Len(result.Failed) = 3

\* C18: with concurrency <= 0 the semaphore has one slot per item, so the
\* admission of an item never has to wait for a slot: whenever the loop is at
\* its select with an item left, the send on sem can proceed.
C18_OneWorkerPerItem ==
    concurrency <= 0 =>
        /\ (bpc = "loop" /\ idx <= nItems) => sem < SemCap
        /\ (bpc = "loop" /\ idx <= nItems) => ENABLED Admit

\* Three items, concurrency 0: all three operations in flight at once.
C18_Witness ==
    /\ concurrency <= 0
    /\ nItems = 3
    /\ InFlight = {1, 2, 3}
    /\ sem = 3

\* The workers that hold a slot of sem: started and not yet past <-sem.
HoldingSlot == {i \in Workers : wpc[i] \in {"spawned", "running", "mulock", "append", "release"}}

\* The keys of Failed, in the order of the list.
FailedKeys == [k \in 1..Len(result.Failed) |-> result.Failed[k].Key]
Ascending(seq) == \A j, k \in 1..Len(seq) : j < k => seq[j] < seq[k]

\* C37: with concurrency 1 and no cancellation at most one operation is
\* under way, an item is started only after the result of every item before
\* it has been recorded, and Succeeded and Failed each list their items in
\* submission order.
C37_SerialInOrder ==
    (concurrency = 1 /\ ~ctxDone) =>
        /\ Cardinality(HoldingSlot) <= 1
        /\ \A i \in Workers :
              wpc[i] # "none" =>
                  \A j \in 1..(i - 1) : Occurrences(Accounted(result), j) = 1
        /\ Ascending(result.Succeeded)
        /\ Ascending(FailedKeys)

\* Three items with concurrency 1: the second failed, and the lists are in
\* submission order.
C37_Witness ==
    /\ concurrency = 1
    /\ ~ctxDone
    /\ bpc = "returned"
    /\ result.Succeeded = <<1, 3>>
    /\ FailedKeys = <<2>>

\* C38: provided every backend operation returns and every goroutine that
\* can run gets to run, BatchUpload / BatchDelete return, for every N >= 0,
\* every concurrency value and every moment of cancellation.
C38_AlwaysReturns == <>(bpc = "returned")

\* A call with three items and concurrency <= 0 that was cancelled on its
\* way has returned.
C38_Witness ==
    /\ bpc = "returned"
    /\ concurrency <= 0
    /\ nItems = 3
    /\ ctxDone
    /\ Len(result.Succeeded) = 1

(***************************************************************************)
(* The driver registry (storage.go): Register, Drivers and Open over the   *)
(* package-level table `drivers`, guarded by driversMu.                    *)
(***************************************************************************)
NumRegProcs == 2       \* goroutines calling Register / Open / Drivers
MaxRegisters == 3      \* Register calls in one run

RegProcs == 1..NumRegProcs

\* drivers = make(map[string]Driver)
EmptyTable == [n \in DriverNames |-> NoFactory]

FreeRW == [writer |-> NoProc, readers |-> {}]

\* panic("storage: Register driver is nil")
PanicNilDriver == [text |-> "storage: Register driver is nil", driver |-> ""]
\* panic("storage: Register called twice for driver " + name)
PanicCalledTwice(n) ==
    [text |-> "storage: Register called twice for driver ", driver |-> n]
\* fmt.Errorf("storage: unknown driver %q (forgotten import?)", driverName)
ErrUnknownDriver(d) == [kind |-> "UnknownDriver", disk |-> "", cause |-> d]
NoMessage == [text |-> "", driver |-> ""]

IdleReg == [op |-> "none", name |-> "", f |-> NoFactory, how |-> "none",
            msg |-> NoMessage, found |-> NoFactory, names |-> {},
            unboundAtCall |-> FALSE, wasBound |-> NoFactory]

\* The body of Register under driversMu: how the call ends ("ok": it returns;
\* "panic": it panics with msg) and the table it leaves.
RegisterResultOverwrite(tbl, n, f) ==
    IF f = NoFactory
    THEN [how |-> "panic", msg |-> PanicNilDriver, table |-> tbl]
    ELSE [how |-> "ok", msg |-> NoMessage, table |-> [tbl EXCEPT ![n] = f]]
RegisterResultSilent(tbl, n, f) ==
    IF f = NoFactory
    THEN [how |-> "panic", msg |-> PanicNilDriver, table |-> tbl]
    ELSE IF tbl[n] # NoFactory
         THEN [how |-> "ok", msg |-> NoMessage, table |-> tbl]
         ELSE [how |-> "ok", msg |-> NoMessage, table |-> [tbl EXCEPT ![n] = f]]
RegisterResult(tbl, n, f) ==
    IF f = NoFactory
    THEN [how |-> "panic", msg |-> PanicNilDriver, table |-> tbl]
    ELSE IF tbl[n] # NoFactory
         THEN [how |-> "panic", msg |-> PanicCalledTwice(n), table |-> tbl]
         ELSE [how |-> "ok", msg |-> NoMessage, table |-> [tbl EXCEPT ![n] = f]]

\* Drivers(): the names bound in the table.
DriverList(tbl) == {n \in DriverNames : tbl[n] # NoFactory}

\* Register calls that have been made and whose body has not run yet.
PendingRegisters ==
    {p \in RegProcs : rloc[p].op = "register" /\ rpc[p] \in {"lock", "locked"}}

\* Register(name, driver) is called.
RegisterCall(p, n, f) ==
    /\ rpc[p] = "idle"
    /\ Len(writes) + Cardinality(PendingRegisters) < MaxRegisters
    /\ rloc' = [rloc EXCEPT ![p] = [IdleReg EXCEPT !.op = "register", !.name = n,
                                                   !.f = f,
                                                   !.unboundAtCall = drivers[n] = NoFactory]]
    /\ rpc' = [rpc EXCEPT ![p] = "lock"]
    /\ UNCHANGED nonRegVars
    /\ UNCHANGED <<drivers, driversMu, writes>>

\* driversMu.Lock(); defer driversMu.Unlock()
RegisterLock(p) ==
    /\ rpc[p] = "lock"
    /\ rloc[p].op = "register"
    /\ driversMu = FreeRW
    /\ driversMu' = [driversMu EXCEPT !.writer = p]
    /\ rpc' = [rpc EXCEPT ![p] = "locked"]
    /\ UNCHANGED nonRegVars
    /\ UNCHANGED <<drivers, rloc, writes>>

\* The nil check, the duplicate check and drivers[name] = driver.
RegisterBody(p) ==
    /\ rpc[p] = "locked"
    /\ LET r == RegisterResult(drivers, rloc[p].name, rloc[p].f)
       IN /\ drivers' = r.table
          /\ rloc' = [rloc EXCEPT ![p].how = r.how, ![p].msg = r.msg,
                                  ![p].wasBound = drivers[rloc[p].name]]
          /\ writes' = Append(writes, [name |-> rloc[p].name, f |-> rloc[p].f,
                                       how |-> r.how,
                                       stored |-> r.table # drivers])
    /\ rpc' = [rpc EXCEPT ![p] = "decided"]
    /\ UNCHANGED nonRegVars
    /\ UNCHANGED driversMu

\* Open(driverName, cfg) / Drivers(): driversMu.RLock()
RegistryRLock(p, op, n) ==
    /\ rpc[p] = "idle"
    /\ driversMu.writer = NoProc
    /\ driversMu' = [driversMu EXCEPT !.readers = @ \cup {p}]
    /\ rloc' = [rloc EXCEPT ![p] = [IdleReg EXCEPT !.op = op, !.name = n]]
    /\ rpc' = [rpc EXCEPT ![p] = "rlocked"]
    /\ UNCHANGED nonRegVars
    /\ UNCHANGED <<drivers, writes>>

\* Open: driver, ok := drivers[driverName]; driversMu.RUnlock(); then the
\* unknown-driver error or the call of the factory.
OpenLookup(p) ==
    /\ rpc[p] = "rlocked"
    /\ rloc[p].op = "open"
    /\ driversMu' = [driversMu EXCEPT !.readers = @ \ {p}]
    /\ rloc' = [rloc EXCEPT ![p].found = drivers[rloc[p].name],
                            ![p].how = IF Registered(rloc[p].name)
                                       THEN "invoke" ELSE "error"]
    /\ rpc' = [rpc EXCEPT ![p] = "decided"]
    /\ UNCHANGED nonRegVars
    /\ UNCHANGED <<drivers, writes>>

\* Drivers: collect the names; the deferred RUnlock.
DriversList(p) ==
    /\ rpc[p] = "rlocked"
    /\ rloc[p].op = "drivers"
    /\ driversMu' = [driversMu EXCEPT !.readers = @ \ {p}]
    /\ rloc' = [rloc EXCEPT ![p].names = DriverList(drivers), ![p].how = "ok"]
    /\ rpc' = [rpc EXCEPT ![p] = "decided"]
    /\ UNCHANGED nonRegVars
    /\ UNCHANGED <<drivers, writes>>

\* The call is over: Register's deferred Unlock runs (on return and on
\* panic alike); Open and Drivers have released their read lock already.
RegistryReturn(p) ==
    /\ rpc[p] = "decided"
    /\ driversMu' = IF rloc[p].op = "register"
                    THEN [driversMu EXCEPT !.writer = NoProc]
                    ELSE driversMu
    /\ rloc' = [rloc EXCEPT ![p] = IdleReg]
    /\ rpc' = [rpc EXCEPT ![p] = "idle"]
    /\ UNCHANGED nonRegVars
    /\ UNCHANGED <<drivers, writes>>

\* The registry before any init function has run.
RegistryInit ==
    /\ drivers = EmptyTable
    /\ driversMu = FreeRW
    /\ rpc = [p \in RegProcs |-> "idle"]
    /\ rloc = [p \in RegProcs |-> IdleReg]
    /\ writes = <<>>

RegistryNext ==
    \E p \in RegProcs :
        \/ \E n \in DriverNames, f \in Factories \cup {NoFactory} : RegisterCall(p, n, f)
        \/ RegisterLock(p)
        \/ RegisterBody(p)
        \/ \E n \in DriverNames : RegistryRLock(p, "open", n)
        \/ RegistryRLock(p, "drivers", "")
        \/ OpenLookup(p)
        \/ DriversList(p)
        \/ RegistryReturn(p)

(***************************************************************************)
(* Properties of the registry (specification SpecRegistry).                *)
(***************************************************************************)
\* The Register call of p has run its body and is about to return or panic.
RegisterDecided(p) == rpc[p] = "decided" /\ rloc[p].op = "register"

\* The Open call of p has looked the driver up.
OpenDecided(p) == rpc[p] = "decided" /\ rloc[p].op = "open"

\* Register bodies run so far for name n with a non-nil driver, in order.
Attempts(n) == SelectSeq(writes, LAMBDA w : w.name = n /\ w.f # NoFactory)

\* Register calls for name n that ended without a panic.
Successes(n) == SelectSeq(writes, LAMBDA w : w.name = n /\ w.how = "ok")

\* Stores into the table entry of name n.
Stores(n) == SelectSeq(writes, LAMBDA w : w.name = n /\ w.stored)

C12_State ==
    \A n \in DriverNames :
        /\ Len(Stores(n)) <= 1
        /\ Len(Successes(n)) <= 1
        /\ Len(Attempts(n)) > 0 =>
              /\ Len(Successes(n)) = 1
              /\ Successes(n)[1] = Attempts(n)[1]
              /\ drivers[n] = Attempts(n)[1].f
        /\ Len(Attempts(n)) = 0 => drivers[n] = NoFactory

\* C12, the part about steps: a binding is never overwritten or removed, and
\* a Register that panics leaves the whole table as it was.
C12_Step ==
    /\ \A n \in DriverNames : drivers[n] # NoFactory => drivers'[n] = drivers[n]
    /\ \A p \in RegProcs :
        (rpc[p] = "locked" /\ rpc'[p] = "decided" /\ rloc'[p].how # "ok")
            => drivers' = drivers

\* C12: under any interleaving of Register, Open and Drivers calls the
\* registry binds each name to at most one factory for its whole lifetime:
\* no binding is overwritten or removed, a failed Register changes nothing,
\* and of the Register calls racing for one unbound name exactly one succeeds.
C12_OneFactoryPerName == []C12_State /\ [][C12_Step]_vars

\* Two Register calls made while "s3" was unbound: the first to get the lock
\* has bound it, the other one has panicked and the binding is the first one's.
C12_Witness ==
    /\ RegisterDecided(2)
    /\ rloc[2].unboundAtCall
    /\ rloc[2].how = "panic"
    /\ rloc[2].f = "f2"
    /\ writes = <<[name |-> "s3", f |-> "f1", how |-> "ok", stored |-> TRUE],
                  [name |-> "s3", f |-> "f2", how |-> "panic", stored |-> FALSE]>>
    /\ drivers["s3"] = "f1"

(***************************************************************************)
(* DeleteAll: list every key under the prefix page by page, then one       *)
(* BatchDelete over all of them.  Keys are numbered in listing order.      *)
(***************************************************************************)
MaxPage == 2           \* largest page the backend returns in one List
MaxListCalls == 4      \* List calls in one run

MaxKeys == 1000        \* WithMaxKeys(1000)
NoMarker == 0          \* marker == "" / an empty NextMarker

Min(a, b) == IF a < b THEN a ELSE b

\* opts := []ListOption{WithMaxKeys(1000)}, plus WithMarker(marker) if set
ListOptsNoMarker(mk) == [MaxKeys |-> MaxKeys, Marker |-> NoMarker]
ListOpts(mk) == [MaxKeys |-> MaxKeys, Marker |-> mk]

\* The backend's List: the keys after the marker, at most a page of them,
\* IsTruncated when keys are left and then NextMarker = the last key returned.
PagedList(o) ==
    LET last == Min(o.Marker + Min(o.MaxKeys, pageSize), nKeys)
    IN [Files |-> [j \in 1..(last - o.Marker) |-> o.Marker + j],
        IsTruncated |-> last < nKeys,
        NextMarker |-> IF last < nKeys THEN last ELSE NoMarker]

\* localStorage.List: the walk starts at the prefix whatever the marker is
\* and stops once MaxKeys files are collected; IsTruncated is
\* len(files) >= MaxKeys and NextMarker is never set.
LocalList(o) ==
    [Files |-> [j \in 1..Min(nKeys, o.MaxKeys) |-> j],
     IsTruncated |-> Min(nKeys, o.MaxKeys) >= o.MaxKeys,
     NextMarker |-> NoMarker]

BackendList(o) == IF backend = "local" THEN LocalList(o) ELSE PagedList(o)

EmptyPage == [Files |-> <<>>, IsTruncated |-> FALSE, NextMarker |-> NoMarker]

\* if err != nil { return nil, err }
ListFailedIgnored(ok) == FALSE
ListFailed(ok) == ~ok

\* What DeleteAll returns: the error and whether a result comes with it.
NoReturn == [err |-> "none", res |-> "none"]
ReturnError(e) == [err |-> e, res |-> "nil"]
ReturnResult == [err |-> "nil", res |-> "result"]

\* adv, ok := s.(AdvancedStorage); the first List call is prepared.
DeleteAllCall ==
    /\ dpc = "start"
    /\ IF ~hasList
       THEN /\ dresult' = ReturnError("NotImplemented")
            /\ dpc' = "returned"
       ELSE /\ dpc' = "list"
            /\ UNCHANGED dresult
    /\ marker' = NoMarker
    /\ allKeys' = <<>>
    /\ UNCHANGED <<mgrVars, regVars, batchVars, auxVars>>
    /\ UNCHANGED <<hasList, backend, nKeys, pageSize, listCalls>>

\* One round of the loop: adv.List(ctx, prefix, opts...), the error return,
\* the append of the page's keys, the test of IsTruncated.
ListPage(ok) ==
    /\ dpc = "list"
    /\ Len(listCalls) < MaxListCalls
    /\ LET o == ListOpts(marker)
           page == IF ok THEN BackendList(o) ELSE EmptyPage
       IN /\ listCalls' = Append(listCalls, [Marker |-> o.Marker, MaxKeys |-> o.MaxKeys,
                                             ok |-> ok, NextMarker |-> page.NextMarker])
          /\ IF ListFailed(ok)
             THEN /\ dresult' = ReturnError("ListError")
                  /\ dpc' = "returned"
                  /\ UNCHANGED <<allKeys, marker>>
             ELSE /\ allKeys' = allKeys \o page.Files
                  /\ IF ~page.IsTruncated
                     THEN /\ dpc' = "listed"
                          /\ UNCHANGED marker
                     ELSE /\ marker' = page.NextMarker
                          /\ UNCHANGED dpc
                  /\ UNCHANGED dresult
    /\ UNCHANGED <<mgrVars, regVars, batchVars, auxVars>>
    /\ UNCHANGED <<hasList, backend, nKeys, pageSize>>

\* if len(allKeys) == 0 { return &BatchDeleteResult{}, nil }, else
\* BatchDelete(ctx, s, allKeys, concurrency) is called.
DeleteAllBatch ==
    /\ dpc = "listed"
    /\ Len(allKeys) <= MaxItems
    /\ IF Len(allKeys) = 0
       THEN /\ dresult' = ReturnResult
            /\ dpc' = "returned"
            /\ UNCHANGED <<nItems, bpc>>
       ELSE /\ nItems' = Len(allKeys)
            /\ bpc' = "start"
            /\ dpc' = "batch"
            /\ UNCHANGED dresult
    /\ UNCHANGED <<mgrVars, regVars, auxVars>>
    /\ UNCHANGED <<kind, concurrency, ctxDone, idx, sem, wg, bmu, wpc, outcome, result,
                   ops, lateAdmit, preCancelled>>
    /\ UNCHANGED <<hasList, backend, nKeys, pageSize, marker, allKeys, listCalls>>

\* BatchDelete has returned: return its result, nil.
DeleteAllReturn ==
    /\ dpc = "batch"
    /\ bpc = "returned"
    /\ dresult' = ReturnResult
    /\ dpc' = "returned"
    /\ UNCHANGED <<mgrVars, regVars, batchVars, auxVars>>
    /\ UNCHANGED <<hasList, backend, nKeys, pageSize, marker, allKeys, listCalls>>

\* A DeleteAll call about to start, on a backend with or without List.
DeleteAllInit ==
    /\ hasList \in BOOLEAN
    /\ backend = "paged"
    /\ nKeys \in 0..MaxItems
    /\ pageSize \in 1..MaxPage
    /\ dpc = "start"
    /\ marker = NoMarker
    /\ allKeys = <<>>
    /\ listCalls = <<>>
    /\ dresult = NoReturn
    /\ kind = "delete"
    /\ nItems = 0
    /\ concurrency \in ConcurrencyChoices
    /\ ctxDone = FALSE
    /\ bpc = "notcalled"
    /\ idx = 1
    /\ sem = 0
    /\ wg = 0
    /\ bmu = FreeMu
    /\ wpc = [i \in Workers |-> "none"]
    /\ outcome = [i \in Workers |-> "none"]
    /\ result = EmptyResult
    /\ ops = [i \in Workers |-> 0]
    /\ lateAdmit = {}
    /\ preCancelled = FALSE

DeleteAllNext ==
    \/ DeleteAllCall
    \/ \E ok \in BOOLEAN : ListPage(ok)
    \/ DeleteAllBatch
    \/ DeleteAllReturn
    \/ BatchNext

(***************************************************************************)
(* Properties of DeleteAll (specification SpecDeleteAll).                  *)
(***************************************************************************)
\* The keys under the prefix.
AllBackendKeys == 1..nKeys

\* The pages the backend splits the listing into.
NumPages == IF nKeys = 0 THEN 1 ELSE (nKeys + pageSize - 1) \div pageSize

RECURSIVE SumOps(_)
SumOps(S) == IF S = {} THEN 0
             ELSE LET i == CHOOSE x \in S : TRUE IN ops[i] + SumOps(S \ {i})

\* Delete invocations for key k: those of the batch items that carry k.
Deletes(k) == SumOps({i \in 1..Len(allKeys) : i \in Workers /\ allKeys[i] = k})

\* The listing is complete.
ListingDone == dpc \in {"listed", "batch"} \/ (dpc = "returned" /\ dresult.err = "nil")

\* The List calls made so far follow the backend's cursor: the first has no
\* marker, each later one passes the NextMarker of the page before it, and
\* no page is requested twice.
CursorFollowed ==
    /\ Len(listCalls) > 0 => listCalls[1].Marker = NoMarker
    /\ \A j \in 1..(Len(listCalls) - 1) :
          /\ listCalls[j].ok
          /\ listCalls[j + 1].Marker = listCalls[j].NextMarker
    /\ \A i, j \in 1..Len(listCalls) : i # j => listCalls[i].Marker # listCalls[j].Marker
    /\ \A j \in 1..Len(listCalls) : listCalls[j].MaxKeys = MaxKeys

C20_NothingDeletedOnListFailure ==
    /\ (dpc \in {"start", "list", "listed"} \/ dresult.err \notin {"none", "nil"}) =>
          /\ \A i \in Workers : ops[i] = 0
          /\ bpc = "notcalled"
          /\ result = EmptyResult
    /\ ~hasList =>
          /\ listCalls = <<>>
          /\ dpc \in {"start", "returned"}
          /\ dpc = "returned" => dresult = ReturnError("NotImplemented")
    /\ \A j \in 1..Len(listCalls) :
          ~listCalls[j].ok =>
              /\ j = Len(listCalls)
              /\ dpc = "returned"
              /\ dresult = ReturnError("ListError")
    /\ dresult.err = "NotImplemented" => ~hasList
    /\ dresult.err = "ListError" => ~listCalls[Len(listCalls)].ok

\* The second of three pages failed: the call has returned that error with
\* the first page's key collected and nothing deleted.
C20_Witness ==
    /\ hasList
    /\ nKeys = 3
    /\ pageSize = 1
    /\ Len(listCalls) = 2
    /\ ~listCalls[2].ok
    /\ allKeys = <<1>>
    /\ dpc = "returned"
    /\ dresult = ReturnError("ListError")

(***************************************************************************)
(* DeleteAll on the built-in local backend (driver_local.go).              *)
(***************************************************************************)
\* Numbers of files under the prefix: a few, and around the page size that
\* DeleteAll asks for.
LocalFileCounts == (0..MaxItems) \cup {MaxKeys - 1, MaxKeys, MaxKeys + 1}

\* A DeleteAll call about to start on a localStorage.
DeleteAllLocalInit ==
    /\ hasList = TRUE
    /\ backend = "local"
    /\ nKeys \in LocalFileCounts
    /\ pageSize = 1
    /\ dpc = "start"
    /\ marker = NoMarker
    /\ allKeys = <<>>
    /\ listCalls = <<>>
    /\ dresult = NoReturn
    /\ kind = "delete"
    /\ nItems = 0
    /\ concurrency \in ConcurrencyChoices
    /\ ctxDone = FALSE
    /\ bpc = "notcalled"
    /\ idx = 1
    /\ sem = 0
    /\ wg = 0
    /\ bmu = FreeMu
    /\ wpc = [i \in Workers |-> "none"]
    /\ outcome = [i \in Workers |-> "none"]
    /\ result = EmptyResult
    /\ ops = [i \in Workers |-> 0]
    /\ lateAdmit = {}
    /\ preCancelled = FALSE

\* The List calls that are enough to read n keys in pages of MaxKeys.
PagesNeeded(n) == n \div MaxKeys + 1

\* C39 as stated: on the local backend the listing of DeleteAll comes to an
\* end for every number of files (it needs no more List calls than there
\* are pages of MaxKeys keys) and collects each file once, so that each file
\* is deleted exactly once.
C39_LocalListingEnds ==
    backend = "local" =>
        /\ Len(listCalls) <= PagesNeeded(nKeys)
        /\ Cardinality({allKeys[j] : j \in 1..Len(allKeys)}) = Len(allKeys)
        /\ (dpc = "returned" /\ dresult.err = "nil" /\ ~ctxDone) =>
               \A k \in AllBackendKeys : Deletes(k) = 1

(***************************************************************************)
(* Retry (helpers.go).  time.Duration is an int64 count of nanoseconds:    *)
(* a 64-bit word is a sequence of 8 bytes, least significant first, and    *)
(* the arithmetic wraps as Go's does.                                      *)
(***************************************************************************)
MaxAttempts == 40      \* largest maxAttempts tried

WordLen == 8           \* bytes of an int64
Byte == 256            \* values of one byte
SignByte == 128        \* the top byte of a negative int64 is >= 0x80

Millisecond == 1000000 \* time.Millisecond, in nanoseconds
BaseDelay == 100       \* 100 << i
CeilingMs == 5000      \* 5 * time.Second, in milliseconds

\* int64(n) for a small non-negative n
RECURSIVE WordFrom(_, _)
WordFrom(n, len) ==
    IF len = 0 THEN <<>> ELSE <<n % Byte>> \o WordFrom(n \div Byte, len - 1)
WordOf(n) == WordFrom(n, WordLen)

\* w * c in int64 (c a small non-negative constant): the bytes from
\* position j on, with the carry coming in; the carry out of the word is lost.
RECURSIVE MulFrom(_, _, _, _)
MulFrom(w, c, j, carry) ==
    IF j > WordLen THEN <<>>
    ELSE LET t == w[j] * c + carry
         IN <<t % Byte>> \o MulFrom(w, c, j + 1, t \div Byte)
MulWord(w, c) == MulFrom(w, c, 1, 0)

\* w << n in int64: whole bytes move up, the rest of the shift is a
\* multiplication by 2^(n % 8); a count of 64 or more leaves 0.
ShiftLeft(w, n) ==
    LET q == n \div WordLen
        moved == [j \in 1..WordLen |-> IF j > q THEN w[j - q] ELSE 0]
    IN MulWord(moved, 2^(n % WordLen))

\* w < 0, and v > w, for int64 values
Negative(w) == w[WordLen] >= SignByte
RECURSIVE GreaterFrom(_, _, _)
GreaterFrom(v, w, j) ==
    IF j = 0 THEN FALSE
    ELSE IF v[j] # w[j] THEN v[j] > w[j]
    ELSE GreaterFrom(v, w, j - 1)
Greater(v, w) ==
    IF Negative(v) # Negative(w) THEN Negative(w)
    ELSE GreaterFrom(v, w, WordLen)

\* 5 * time.Second
Ceiling == MulWord(WordOf(CeilingMs), Millisecond)

\* delay := time.Duration(100<<i) * time.Millisecond;
\* if delay > 5*time.Second { delay = 5 * time.Second }
DelayUncapped(i) == MulWord(ShiftLeft(WordOf(BaseDelay), i), Millisecond)
Delay(i) ==
    LET d == MulWord(ShiftLeft(WordOf(BaseDelay), i), Millisecond)
    IN IF Greater(d, Ceiling) THEN Ceiling ELSE d

\* time.After(delay) with delay <= 0: the timer may have fired by the time
\* the select polls its cases.
Zero == WordOf(0)
TimerReadyAtPoll(d) == Negative(d) \/ d = Zero

\* What Retry returns: nil, ctx.Err(), or
\* fmt.Errorf("storage: max retries exceeded: %w", lastErr); the cause is the
\* number of the fn invocation whose error it wraps (0: lastErr was nil).
RetryPending == [kind |-> "none", cause |-> 0]
RetryNil == [kind |-> "nil", cause |-> 0]
RetryCtxErr == [kind |-> "canceled", cause |-> 0]
RetryMaxExceeded(e) == [kind |-> "max retries exceeded", cause |-> e]

\* for i := 0; i < maxAttempts; i++
LoopContinuesInclusive(i, n) == i <= n
LoopContinues(i, n) == i < n

\* if err := fn(); err != nil { ... } ; return nil
ErrNilNever(ok) == FALSE
ErrNil(ok) == ok

\* A select parked on ctx.Done() and the timer is woken by whichever comes
\* first; a cancellation at any other moment only closes the channel.
AfterCancelIgnored(p) == p
AfterCancel(p) == IF p = "parked" THEN "woken" ELSE p

\* The loop condition: one more attempt, or the "max retries exceeded" return.
RetryLoop ==
    /\ retryPc = "loop"
    /\ IF LoopContinues(retryI, retryMax)
       THEN /\ retryPc' = "call"
            /\ UNCHANGED retryResult
       ELSE /\ retryResult' = RetryMaxExceeded(retryLastErr)
            /\ retryPc' = "returned"
    /\ UNCHANGED nonRetryVars
    /\ UNCHANGED <<retryMax, retryCtx, retryI, retryLog, retryLastErr, retryDelay,
                   retryCancelledAt>>

\* fn() returns: nil ends the call, an error is kept in lastErr and the
\* delay is computed.
FnReturn(ok) ==
    /\ retryPc = "call"
    /\ retryLog' = Append(retryLog, ok)
    /\ IF ErrNil(ok)
       THEN /\ retryResult' = RetryNil
            /\ retryPc' = "returned"
            /\ UNCHANGED <<retryLastErr, retryDelay>>
       ELSE /\ retryLastErr' = Len(retryLog) + 1
            /\ retryDelay' = Delay(retryI)
            /\ retryPc' = "select"
            /\ UNCHANGED retryResult
    /\ UNCHANGED nonRetryVars
    /\ UNCHANGED <<retryMax, retryCtx, retryI, retryCancelledAt>>

\* The select finds ctx.Done() ready: return ctx.Err()
SelectDoneNow ==
    /\ retryPc = "select"
    /\ retryCtx
    /\ retryResult' = RetryCtxErr
    /\ retryPc' = "returned"
    /\ UNCHANGED nonRetryVars
    /\ UNCHANGED <<retryMax, retryCtx, retryI, retryLog, retryLastErr, retryDelay,
                   retryCancelledAt>>

\* The select finds the timer ready: continue
SelectTimerNow ==
    /\ retryPc = "select"
    /\ TimerReadyAtPoll(retryDelay)
    /\ retryI' = retryI + 1
    /\ retryPc' = "loop"
    /\ UNCHANGED nonRetryVars
    /\ UNCHANGED <<retryMax, retryCtx, retryLog, retryLastErr, retryDelay, retryResult,
                   retryCancelledAt>>

\* No case is ready: the goroutine parks in the select.
SelectPark ==
    /\ retryPc = "select"
    /\ ~retryCtx
    /\ retryPc' = "parked"
    /\ UNCHANGED nonRetryVars
    /\ UNCHANGED <<retryMax, retryCtx, retryI, retryLog, retryLastErr, retryDelay,
                   retryResult, retryCancelledAt>>

\* The delay has passed: case <-time.After(delay): continue
TimerFires ==
    /\ retryPc = "parked"
    /\ retryI' = retryI + 1
    /\ retryPc' = "loop"
    /\ UNCHANGED nonRetryVars
    /\ UNCHANGED <<retryMax, retryCtx, retryLog, retryLastErr, retryDelay, retryResult,
                   retryCancelledAt>>

\* The caller's cancel(), at any moment.
RetryCancel ==
    /\ ~retryCtx
    /\ retryCtx' = TRUE
    /\ retryPc' = AfterCancel(retryPc)
    /\ retryCancelledAt' = IF retryPc = "parked" THEN <<Len(retryLog)>>
                           ELSE retryCancelledAt
    /\ UNCHANGED nonRetryVars
    /\ UNCHANGED <<retryMax, retryI, retryLog, retryLastErr, retryDelay, retryResult>>

\* case <-ctx.Done(): return ctx.Err(), for a select that was parked
ReturnCtxErr ==
    /\ retryPc = "woken"
    /\ retryResult' = RetryCtxErr
    /\ retryPc' = "returned"
    /\ UNCHANGED nonRetryVars
    /\ UNCHANGED <<retryMax, retryCtx, retryI, retryLog, retryLastErr, retryDelay,
                   retryCancelledAt>>

\* Retry(ctx, maxAttempts, fn) is called: var lastErr error; i := 0
RetryInit ==
    /\ retryMax \in (0 - 1)..MaxAttempts
    /\ retryCtx \in BOOLEAN
    /\ retryPc = "loop"
    /\ retryI = 0
    /\ retryLog = <<>>
    /\ retryLastErr = 0
    /\ retryDelay = Zero
    /\ retryResult = RetryPending
    /\ retryCancelledAt = <<>>

RetryNext ==
    \/ RetryLoop
    \/ \E ok \in BOOLEAN : FnReturn(ok)
    \/ SelectDoneNow
    \/ SelectTimerNow
    \/ SelectPark
    \/ TimerFires
    \/ RetryCancel
    \/ ReturnCtxErr

(***************************************************************************)
(* Properties of Retry (specification SpecRetry).                          *)
(***************************************************************************)
\* Invocations of fn so far, and whether the last of them succeeded.
Calls == Len(retryLog)
LastSucceeded == Calls > 0 /\ retryLog[Calls]
AllFailed == \A j \in 1..Calls : ~retryLog[j]

\* C21, the part about states: no invocation of fn follows a successful
\* one; when the k-th invocation is the first to succeed, k <= maxAttempts,
\* Retry has returned nil and fn has been invoked exactly k times, k - 1
\* failures having come before; Retry returns nil in no other case.
C21_State ==
    /\ \A j \in 1..(Calls - 1) : ~retryLog[j]
    /\ Calls <= IF retryMax > 0 THEN retryMax ELSE 0
    /\ LastSucceeded =>
          /\ retryPc = "returned"
          /\ retryResult = RetryNil
          /\ Calls = retryI + 1
    /\ retryResult = RetryNil => LastSucceeded

\* C21, the part about steps: once Retry has returned, fn is not invoked.
C21_Step == retryPc = "returned" => (retryLog' = retryLog /\ retryResult' = retryResult)

\* C21: with no cancellation, if fn first succeeds on its k-th invocation
\* (k <= maxAttempts), Retry returns nil, fn has been invoked exactly k times
\* and is never invoked after that success.
C21_SucceedsOnKth == []C21_State /\ [][C21_Step]_vars

\* fn failed twice and succeeded the third time, with maxAttempts = 3.
C21_Witness ==
    /\ retryMax = 3
    /\ retryLog = <<FALSE, FALSE, TRUE>>
    /\ retryPc = "returned"
    /\ retryResult = RetryNil
    /\ ~retryCtx

\* C22 as stated: once all maxAttempts (>= 1) invocations of fn have failed
\* and Retry has returned, it has returned the error of the last invocation
\* wrapped as "max retries exceeded"; fn is never invoked more than
\* maxAttempts times.
C22_AllFailedReturnsWrapped ==
    /\ retryMax >= 1 => Calls <= retryMax
    /\ (retryMax >= 1 /\ Calls = retryMax /\ AllFailed /\ retryPc = "returned") =>
          retryResult = RetryMaxExceeded(retryMax)

\* C23, the part about states: when the cancellation has fired while Retry
\* was waiting in its select, fn has not been invoked since, and what Retry
\* returns is the cancellation error.
C23_State ==
    retryCancelledAt # <<>> =>
        /\ retryPc \in {"woken", "returned"}
        /\ Calls = retryCancelledAt[1]
        /\ retryPc = "returned" => retryResult = RetryCtxErr

\* C23, the part about steps: the cancellation wakes the waiting select at
\* once, and the step after the wake-up is the return.
C23_Step ==
    /\ (retryPc = "parked" /\ ~retryCtx /\ retryCtx') => retryPc' = "woken"
    /\ (retryPc = "woken" /\ retryPc' # "woken") =>
          (retryPc' = "returned" /\ retryResult' = RetryCtxErr)

\* C23: if the cancellation fires while Retry is waiting between two
\* attempts, Retry returns the cancellation error immediately and fn is not
\* invoked again.
C23_CancelDuringWait == []C23_State /\ [][C23_Step]_vars

\* Cancelled during the wait after the first of three attempts: Retry has
\* returned ctx.Err() with fn invoked once.
C23_Witness ==
    /\ retryMax = 3
    /\ retryCancelledAt = <<1>>
    /\ retryPc = "returned"
    /\ retryResult = RetryCtxErr
    /\ retryLog = <<FALSE>>

\* C24: with maxAttempts <= 0 fn is never invoked and what Retry returns is
\* an error (the "max retries exceeded" wrapping of a nil lastErr).
C24_NoAttempts ==
    retryMax <= 0 =>
        /\ Calls = 0
        /\ retryPc \in {"loop", "returned"}
        /\ retryPc = "returned" => retryResult = RetryMaxExceeded(0)

C24_Witness ==
    /\ retryMax = 0 - 1
    /\ retryPc = "returned"
    /\ retryResult.kind = "max retries exceeded"
    /\ Calls = 0

\* min(100 ms * 2^i, 5 s) in milliseconds (100 * 2^6 is above the ceiling).
ExpectedDelayMs(i) == IF i >= 6 THEN CeilingMs ELSE BaseDelay * 2^i

\* C25 as stated: the delay waited after the failed attempt with index i is
\* min(100 ms * 2^i, 5 s): never negative, never above 5 s, and not smaller
\* than the delay of the attempt before.
C25_DelayIsCappedDoubling ==
    retryPc \in {"select", "parked"} =>
        /\ retryDelay = MulWord(WordOf(ExpectedDelayMs(retryI)), Millisecond)
        /\ ~Negative(retryDelay)
        /\ ~Greater(retryDelay, Ceiling)
        /\ retryI >= 1 => ~Greater(Delay(retryI - 1), retryDelay)

\* C40 as stated: when the cancellation has fired before Retry is called
\* with maxAttempts >= 1, Retry does not invoke fn (not even for the first
\* attempt), and what it returns is the cancellation error.
C40_CancelledBeforeCall ==
    [][(retryCtx /\ retryMax >= 1 /\ retryPc = "loop" /\ retryI = 0) =>
           (retryPc' # "call" /\ (retryPc' = "returned" => retryResult' = RetryCtxErr))]_vars

(***************************************************************************)
(* Properties of Manager.Disk over a registry that is still being filled   *)
(* (specification SpecOpen).                                               *)
(***************************************************************************)
\* The one goroutine that registers drivers while the Manager is in use.
Registrar == 1

\* The Disk call of p has been refused by Open for want of a driver.
DiskUnknownDriver(p) ==
    /\ DiskDecided(p)
    /\ loc[p].err.kind = "OpenFailed"
    /\ loc[p].err.cause = "UnknownDriver"

\* C15, the part about states: a Disk call refused for an unknown driver
\* returns an error naming the disk, no Backend, has invoked no factory and
\* leaves the disk without a cache entry.
C15_State ==
    \A p \in Procs :
        DiskUnknownDriver(p) =>
            /\ loc[p].err = ErrOpen(loc[p].name, "UnknownDriver")
            /\ loc[p].name \in DOMAIN config.Storages
            /\ loc[p].s = NoBackend
            /\ ~loc[p].invoked
            /\ ~Cached(storages, loc[p].name)
            /\ loc[p].name \in unknownSeen

\* C15, the part about steps: Open decides on the table as it is when it
\* looks the driver up.  Unbound: the call fails with UnknownDriver, no
\* factory is invoked and the cache is not written.  Bound (be it since a
\* moment ago, after earlier calls were refused): the factory is invoked.
C15_Step ==
    \A p \in Procs :
        (pc[p] = "open" /\ pc'[p] # "open") =>
            IF drivers[config.Storages[loc[p].name]] = NoFactory
            THEN /\ pc'[p] = "unlock"
                 /\ loc'[p].err = ErrOpen(loc[p].name, "UnknownDriver")
                 /\ factoryCalls' = factoryCalls
                 /\ storages' = storages
            ELSE /\ pc'[p] = "factory"
                 /\ loc'[p].invoked
                 /\ loc'[p].err = NoError
                 /\ factoryCalls'[loc[p].name] = factoryCalls[loc[p].name] + 1

\* C15: Manager.Disk for a configured disk whose driver is not registered
\* fails with UnknownDriver, invokes no factory and caches nothing; once the
\* driver has been registered, a later Disk call for the disk reaches the
\* factory and returns its Backend.
C15_UnknownDriver == []C15_State /\ [][C15_Step]_vars

\* Disk("b") was refused while "s3" was unbound; "s3" has been registered
\* since, and a later Disk("b") has built and cached the Backend.
C15_Witness ==
    \E p \in Procs :
        /\ "b" \in unknownSeen
        /\ drivers["s3"] # NoFactory
        /\ DiskGotBackend(p)
        /\ loc[p].name = "b"
        /\ loc[p].invoked
        /\ storages["b"] = loc[p].s

(***************************************************************************)
(* expandEnvVars (config.go): the raw text of a configuration file with    *)
(* its ${VAR} and $VAR references replaced from the process environment.   *)
(* A text is a sequence of one-character strings.                          *)
(***************************************************************************)
MaxText == 5

\* The bytes a text is made of: the three bytes the pattern names, a letter
\* that spells the variable V, one more letter, a digit and a byte that is
\* no part of a name.
IdentStart == {"V", "a"}
IdentChar == IdentStart \cup {"1"}
TextBytes == {"$", "{", "}", "-"} \cup IdentChar

RECURSIVE TextsUpTo(_)
TextsUpTo(n) ==
    IF n = 0 THEN {<<>>}
    ELSE LET shorter == TextsUpTo(n - 1)
         IN shorter \cup {Append(t, b) : t \in {s \in shorter : Len(s) = n - 1},
                                         b \in TextBytes}
Texts == TextsUpTo(MaxText)

\* The environment: the variable V is unset, set to the empty string, or set
\* to a value (one of them spells a reference itself); no other variable is
\* set.
Unset == [set |-> FALSE, val |-> <<>>]
SetTo(v) == [set |-> TRUE, val |-> v]
EnvName == <<"V">>
EnvValues == {Unset, SetTo(<<>>), SetTo(<<"a", "-">>), SetTo(<<"$", "V">>)}

\* os.Getenv: the value, "" for a variable that is not set.
Getenv(env, name) == IF name = EnvName /\ env.set THEN env.val ELSE <<>>

\* envVarRegex at position p of t: the last position of the match that
\* starts at p, 0 if there is none.  \$\{([^}]+)\} runs to the first "}" and
\* needs one byte or more before it; \$([a-zA-Z_][a-zA-Z0-9_]*) is greedy.
BraceEnd(t, p) ==
    LET closes == {q \in (p + 3)..Len(t) :
                      t[q] = "}" /\ \A j \in (p + 2)..(q - 1) : t[j] # "}"}
    IN IF closes = {} THEN 0 ELSE CHOOSE q \in closes : TRUE
BareEnd(t, p) ==
    CHOOSE q \in (p + 1)..Len(t) :
        /\ \A j \in (p + 2)..q : t[j] \in IdentChar
        /\ q = Len(t) \/ t[q + 1] \notin IdentChar
MatchEnd(t, p) ==
    IF t[p] # "$" \/ p = Len(t) THEN 0
    ELSE IF t[p + 1] = "{" THEN BraceEnd(t, p)
    ELSE IF t[p + 1] \in IdentStart THEN BareEnd(t, p)
    ELSE 0

\* strings.HasPrefix(s, "${")
HasBracePrefix(s) == Len(s) >= 2 /\ s[1] = "$" /\ s[2] = "{"

\* The name the callback looks up: s[2 : len(s)-1] or s[1:].
VarNameBare(s) == SubSeq(s, 2, Len(s))
VarName(s) == IF HasBracePrefix(s) THEN SubSeq(s, 3, Len(s) - 1) ELSE SubSeq(s, 2, Len(s))

\* The callback of ReplaceAllFunc: the value, or the match itself.
Replacement(env, s) ==
    LET val == Getenv(env, VarName(s))
    IN IF val # <<>> THEN val ELSE s

\* ReplaceAllFunc from position p on: the pieces the text falls into, each
\* with what replaces it.  Matches are found left to right and do not
\* overlap; what replaces a match is not scanned again.
RECURSIVE PiecesFrom(_, _, _)
PiecesFrom(env, t, p) ==
    IF p > Len(t) THEN <<>>
    ELSE LET q == MatchEnd(t, p)
         IN IF q = 0
            THEN <<[match |-> FALSE, src |-> <<t[p]>>, dst |-> <<t[p]>>]>>
                     \o PiecesFrom(env, t, p + 1)
            ELSE <<[match |-> TRUE, src |-> SubSeq(t, p, q),
                    dst |-> Replacement(env, SubSeq(t, p, q))]>>
                     \o PiecesFrom(env, t, q + 1)

RECURSIVE Joined(_, _)
Joined(ps, f) == IF ps = <<>> THEN <<>> ELSE Head(ps)[f] \o Joined(Tail(ps), f)

expandEnvVars(env, t) == Joined(PiecesFrom(env, t, 1), "dst")

NotExpanded == <<"<not expanded>">>

\* expandEnvVars is applied to the text.
ExpandCall ==
    /\ envPc = "start"
    /\ envPieces' = PiecesFrom(envVal, envIn, 1)
    /\ envOut' = expandEnvVars(envVal, envIn)
    /\ envPc' = "done"
    /\ UNCHANGED <<envIn, envVal, nonEnvVars>>

EnvInit ==
    /\ envIn \in Texts
    /\ envVal \in EnvValues
    /\ envPieces = <<>>
    /\ envOut = NotExpanded
    /\ envPc = "start"

EnvNext == ExpandCall

(***************************************************************************)
(* Properties of expandEnvVars.                                            *)
(***************************************************************************)
\* s is a name of the $NAME form.
IsIdent(s) == s # <<>> /\ s[1] \in IdentStart /\ \A j \in 2..Len(s) : s[j] \in IdentChar

\* The NAME of a token: what stands between "${" and "}", or after "$".
NameOf(tok) ==
    CHOOSE n \in {SubSeq(tok, i, j) : i \in 1..Len(tok), j \in 1..Len(tok)} :
        \/ tok = <<"$", "{">> \o n \o <<"}">> /\ n # <<>> /\ \A j \in 1..Len(n) : n[j] # "}"
        \/ tok = <<"$">> \o n /\ IsIdent(n)

\* tok is a token: ${NAME} or $NAME.
IsToken(tok) ==
    \E n \in {SubSeq(tok, i, j) : i \in 1..Len(tok), j \in 1..Len(tok)} :
        \/ tok = <<"$", "{">> \o n \o <<"}">> /\ n # <<>> /\ \A j \in 1..Len(n) : n[j] # "}"
        \/ tok = <<"$">> \o n /\ IsIdent(n)

\* Where piece k starts in the text.
PieceStart(k) == 1 + Len(Joined(SubSeq(envPieces, 1, k - 1), "src"))

\* NAME is set to a non-empty value.
IsSet(name) == name = EnvName /\ envVal.set /\ envVal.val # <<>>

\* C26: expandEnvVars replaces every ${NAME} or $NAME token whose NAME is set
\* to a non-empty value by exactly that value, leaves a token whose NAME is
\* unset or empty as it is, and leaves all text outside tokens as it is; it
\* always returns a text.
C26_TokensExpanded ==
    envPc = "done" =>
        /\ Joined(envPieces, "src") = envIn
        /\ Joined(envPieces, "dst") = envOut
        /\ \A k \in 1..Len(envPieces) :
              LET piece == envPieces[k]
              IN IF piece.match
                 THEN IsToken(piece.src)
                 ELSE \A q \in PieceStart(k)..Len(envIn) :
                          ~IsToken(SubSeq(envIn, PieceStart(k), q))
        /\ \A k \in 1..Len(envPieces) :
              LET piece == envPieces[k]
              IN IF piece.match
                 THEN IF IsSet(NameOf(piece.src))
                      THEN piece.dst = envVal.val
                      ELSE piece.dst = piece.src
                 ELSE piece.dst = piece.src

\* "-${V}-" with V set: the text around the token is kept and the token has
\* become the value.
C26_Witness ==
    /\ envPc = "done"
    /\ envIn = <<"-", "$", "{", "V", "}">>
    /\ envVal = SetTo(<<"a", "-">>)
    /\ envOut = <<"-", "a", "-">>

(***************************************************************************)
(* The configuration entry points: Setup (parseConfigMap, setup.go) and    *)
(* NewConfigFromMap, LoadConfig, LoadConfigEmbedded,                       *)
(* LoadConfigEmbeddedWithKey (config.go), each applied to one              *)
(* configuration tree.  The tree has an optional "default" and a disk      *)
(* collection under "disks", under "storages" or under both; a disk entry  *)
(* is a map with an optional "driver", an optional flat setting "root" and *)
(* an optional "options" map that may hold "root" itself.                  *)
(***************************************************************************)
DiskKeys == {"a", "b"}
RootValues == {Absent, "up"}

\* A value of an "options" key: no such key, or a map with or without "root".
NoMap == [present |-> FALSE, root |-> Absent]
NestedMap(r) == [present |-> TRUE, root |-> r]
OptionMaps == {NoMap} \cup {NestedMap(r) : r \in RootValues}

\* A disk entry of the tree.
NoEntry == [present |-> FALSE, driver |-> Absent, root |-> Absent, options |-> NoMap]
Entry(d, r, o) == [present |-> TRUE, driver |-> d, root |-> r, options |-> o]
EntriesA == {Entry(d, r, o) : d \in {Absent, "local"}, r \in RootValues, o \in OptionMaps}
EntriesB == {NoEntry, Entry("s3", "up", NoMap), Entry("s3", Absent, NestedMap("up"))}

\* A disk collection: the value of "disks" or of "storages".
NoCollection == [present |-> FALSE, entries |-> [k \in DiskKeys |-> NoEntry]]
Collection(ea, eb) ==
    [present |-> TRUE, entries |-> [k \in DiskKeys |-> IF k = "a" THEN ea ELSE eb]]
Collections == {NoCollection} \cup {Collection(ea, eb) : ea \in EntriesA, eb \in EntriesB}

Trees == [default : {Absent, "a"}, disks : Collections, storages : Collections]
EmptyTree == [default |-> Absent, disks |-> NoCollection, storages |-> NoCollection]

\* The file a loader reads: its extension, and the top-level key under which
\* it holds the tree ("": the tree is the top level itself).
FileExts == {".yaml", ".toml"}
ParsedExts == {".yaml", ".yml", ".json"}
FileKeys == {"", "storage", "oss"}
KeyArgs == {"storage", "oss"}

\* StorageConfig.Options: the keys "root" and "options" of the map, each
\* missing or holding a value.  A nil map and an empty map are both NoOptions.
NoOptions == [root |-> Absent, options |-> NoMap]
\* Config.Storages[name], or no such key.
NoStorage == [present |-> FALSE, Driver |-> "", Options |-> NoOptions]
StorageConfig(d, o) == [present |-> TRUE, Driver |-> d, Options |-> o]
\* Config; Storages is nil, or a map.
NilStorages == [present |-> FALSE, disks |-> [k \in DiskKeys |-> NoStorage]]
ZeroConfig == [Default |-> "", Storages |-> NilStorages]

\* What an entry point returns.
NoResult == [err |-> "<not called>", disk |-> "", cfg |-> ZeroConfig]
Failed(msg, n) == [err |-> msg, disk |-> n, cfg |-> ZeroConfig]
Resolved(c) == [err |-> "nil", disk |-> "", cfg |-> c]

\* parseConfigMap: m["disks"] first, m["storages"] second.
DisksRawFirst(m) == IF m.disks.present THEN m.disks ELSE m.storages

\* parseConfigMap: every key of the disk other than "driver" becomes an
\* option, the key "options" with the map it holds among them.
SiblingOptions(e) == [root |-> e.root, options |-> e.options]

\* parseConfigMap(m) with the Options.
ParseConfigMapFull(m) ==
    LET d == DisksRawFirst(m)
        missing == {n \in DiskKeys : d.entries[n].present /\ d.entries[n].driver = Absent}
    IN IF ~d.present
       THEN Failed("no 'disks' or 'storages' found in config", "")
       ELSE IF missing # {}
       THEN Failed("missing 'driver'", CHOOSE n \in missing : TRUE)
       ELSE Resolved([Default |-> IF m.default = Absent THEN "" ELSE m.default,
                      Storages |->
                         [present |-> TRUE,
                          disks |-> [n \in DiskKeys |->
                                       IF d.entries[n].present
                                       THEN StorageConfig(d.entries[n].driver,
                                                          SiblingOptions(d.entries[n]))
                                       ELSE NoStorage]]])

\* yaml.Unmarshal into a StorageConfig: the fields tagged "driver" and
\* "options" are filled from the keys of these names, a missing key leaves
\* the zero value and every other key of the entry is dropped.
DecodeStorage(e) ==
    StorageConfig(IF e.driver = Absent THEN "" ELSE e.driver,
                  IF e.options.present
                  THEN [root |-> e.options.root, options |-> NoMap]
                  ELSE NoOptions)

\* yaml.Unmarshal into a Config: the fields tagged "default" and "storages";
\* a "disks" key is dropped like any other unknown key.
DecodeConfig(m) ==
    [Default |-> IF m.default = Absent THEN "" ELSE m.default,
     Storages |-> IF ~m.storages.present THEN NilStorages
                  ELSE [present |-> TRUE,
                        disks |-> [n \in DiskKeys |->
                                     IF m.storages.entries[n].present
                                     THEN DecodeStorage(m.storages.entries[n])
                                     ELSE NoStorage]]]

\* NewConfigFromMap(m): the map is marshalled to YAML and the document is
\* decoded into a Config.
NewConfigFromMap(m) == Resolved(DecodeConfig(m))

\* The top level of the file as the loaders that decode it directly see it.
TopLevel(file, m) == IF file.key = "" THEN m ELSE EmptyTree
\* The value under a top-level key of the file.
HasKey(file, key) == file.key = key
UnderKey(file, m, key) == IF HasKey(file, key) THEN m ELSE EmptyTree

\* LoadConfig(path)
LoadConfig(file, m) ==
    IF ~file.readable THEN Failed("failed to read config file", "")
    ELSE IF file.ext \notin ParsedExts THEN Failed("unsupported config format", "")
    ELSE Resolved(DecodeConfig(TopLevel(file, m)))

\* LoadConfigEmbedded(path)
LoadConfigEmbedded(file, m) ==
    IF ~file.readable THEN Failed("failed to read config file", "")
    ELSE IF file.ext \notin ParsedExts THEN Failed("unsupported config format", "")
    ELSE LET c == DecodeConfig(UnderKey(file, m, "storage"))
         IN IF ~c.Storages.present
            THEN Failed("no 'storage' section found in config file", "")
            ELSE Resolved(c)

\* LoadConfigEmbeddedWithKey(path, key)
LoadConfigEmbeddedWithKey(file, m, key) ==
    IF ~file.readable THEN Failed("failed to read config file", "")
    ELSE IF file.ext \notin ParsedExts THEN Failed("unsupported config format", "")
    ELSE IF ~HasKey(file, key) THEN Failed("key not found in config file", "")
    ELSE Resolved(DecodeConfig(UnderKey(file, m, key)))

\* defaultMgr: nil, or the Manager made by NewManager(c).
NoManager == [present |-> FALSE, config |-> ZeroConfig]
NewManager(c) == [present |-> TRUE, config |-> c]

\* NewManager(c) as an object on the heap: the config and an empty cache.
ManagerObject(c) == [config |-> c, storages |-> [n \in DiskKeys |-> NoBackend]]

\* if err != nil { return err }
SetupInstallsAlways(res) == TRUE
SetupInstalls(res) == res.err = "nil"

\* Setup(cfg): parseConfigMap, and on success the default Manager is replaced
\* by a new one.
Setup(m) ==
    /\ cfgTree' = m
    /\ cfgEntry' = "Setup"
    /\ cfgResult' = ParseConfigMapFull(m)
    /\ setups' = Append(setups, [tree |-> m, err |-> cfgResult'.err])
    /\ IF SetupInstalls(cfgResult')
       THEN /\ defaultMgr' = NewManager(cfgResult'.cfg)
            /\ managers' = Append(managers, ManagerObject(cfgResult'.cfg))
            /\ defaultAt' = Len(managers')
       ELSE UNCHANGED <<defaultMgr, managers, defaultAt>>
    /\ UNCHANGED <<cfgFile, cfgKey, wrappers, dwPc, dwLoc, opLog, factoryLog, mgrVars,
                   batchVars, regVars, delVars, retryVars, envVars, progVars>>

\* The one Setup call of a program that configures itself at start.
SetupCall == cfgEntry = "none" /\ Setup(cfgTree)

NewConfigFromMapCall ==
    /\ cfgEntry = "none"
    /\ cfgEntry' = "NewConfigFromMap"
    /\ cfgResult' = NewConfigFromMap(cfgTree)
    /\ UNCHANGED <<cfgTree, cfgFile, cfgKey, defaultMgr, nonCfgVars>>

LoadConfigCall ==
    /\ cfgEntry = "none"
    /\ cfgEntry' = "LoadConfig"
    /\ cfgResult' = LoadConfig(cfgFile, cfgTree)
    /\ UNCHANGED <<cfgTree, cfgFile, cfgKey, defaultMgr, nonCfgVars>>

LoadConfigEmbeddedCall ==
    /\ cfgEntry = "none"
    /\ cfgEntry' = "LoadConfigEmbedded"
    /\ cfgResult' = LoadConfigEmbedded(cfgFile, cfgTree)
    /\ UNCHANGED <<cfgTree, cfgFile, cfgKey, defaultMgr, nonCfgVars>>

LoadConfigEmbeddedWithKeyCall ==
    /\ cfgEntry = "none"
    /\ \E key \in KeyArgs :
          /\ cfgEntry' = "LoadConfigEmbeddedWithKey"
          /\ cfgKey' = key
          /\ cfgResult' = LoadConfigEmbeddedWithKey(cfgFile, cfgTree, key)
    /\ UNCHANGED <<cfgTree, cfgFile, defaultMgr, nonCfgVars>>

ConfigInit ==
    /\ cfgTree \in Trees
    /\ cfgFile \in [readable : BOOLEAN, ext : FileExts, key : FileKeys]
    /\ cfgKey = ""
    /\ cfgEntry = "none"
    /\ cfgResult = NoResult
    /\ defaultMgr = NoManager

ConfigNext ==
    \/ SetupCall
    \/ NewConfigFromMapCall
    \/ LoadConfigCall
    \/ LoadConfigEmbeddedCall
    \/ LoadConfigEmbeddedWithKeyCall

(***************************************************************************)
(* Properties of the configuration entry points.                           *)
(***************************************************************************)
\* The tree reached the entry point that was called: Setup and
\* NewConfigFromMap take it as their argument, the loaders read it from a
\* file they can parse, at the top level or under the key they look at.
TreeWasRead ==
    CASE cfgEntry \in {"Setup", "NewConfigFromMap"} -> TRUE
      [] cfgEntry = "LoadConfig" ->
            cfgFile.readable /\ cfgFile.ext \in ParsedExts /\ cfgFile.key = ""
      [] cfgEntry = "LoadConfigEmbedded" ->
            cfgFile.readable /\ cfgFile.ext \in ParsedExts /\ cfgFile.key = "storage"
      [] cfgEntry = "LoadConfigEmbeddedWithKey" ->
            cfgFile.readable /\ cfgFile.ext \in ParsedExts /\ cfgFile.key = cfgKey
      [] OTHER -> FALSE

\* The options of a disk entry under the two-shape rule: the contents of
\* "options" when the entry has that key, its other non-driver keys when not.
TwoShapeOptions(e) ==
    IF e.options.present THEN [root |-> e.options.root, options |-> NoMap]
    ELSE [root |-> e.root, options |-> NoMap]

\* The disk collection Setup reads.
SetupDisks == DisksRawFirst(cfgTree).entries

\* C27: Setup gives a disk the two-shape options: its non-driver sibling
\* keys when it has no "options" key, exactly the contents of "options" when
\* it has one.
C27_BothShapesAccepted ==
    cfgEntry = "Setup" /\ cfgResult.err = "nil" =>
        \A n \in DiskKeys :
            SetupDisks[n].present =>
                cfgResult.cfg.Storages.disks[n].Options = TwoShapeOptions(SetupDisks[n])

\* C28: NewConfigFromMap and parseConfigMap, both successful on the same map,
\* return the same Config.
C28_SameResolvedConfig ==
    cfgEntry = "NewConfigFromMap"
        /\ cfgResult.err = "nil" /\ ParseConfigMapFull(cfgTree).err = "nil" =>
            cfgResult.cfg = ParseConfigMapFull(cfgTree).cfg

\* The same tree with its collection under the other key.
OtherKey(m) == [default |-> m.default, disks |-> m.storages, storages |-> m.disks]

\* What the entry point that was called returns for the tree m.
Returned(m) ==
    CASE cfgEntry = "Setup" -> ParseConfigMapFull(m)
      [] cfgEntry = "NewConfigFromMap" -> NewConfigFromMap(m)
      [] cfgEntry = "LoadConfig" -> LoadConfig(cfgFile, m)
      [] cfgEntry = "LoadConfigEmbedded" -> LoadConfigEmbedded(cfgFile, m)
      [] cfgEntry = "LoadConfigEmbeddedWithKey" ->
            LoadConfigEmbeddedWithKey(cfgFile, m, cfgKey)
      [] OTHER -> NoResult

\* C29: every entry point returns for a tree whose collection is under
\* "disks" what it returns for the same tree with the collection under
\* "storages".
C29_DisksIsStorages ==
    /\ cfgEntry \notin {"none", "done"}
    /\ TreeWasRead
    /\ cfgTree.disks.present
    /\ ~cfgTree.storages.present
    => cfgResult = Returned(OtherKey(cfgTree))

\* The disks without a "driver" in a tree that has one collection.
OneCollection == cfgTree.disks.present # cfgTree.storages.present
Driverless ==
    {n \in DiskKeys : /\ DisksRawFirst(cfgTree).entries[n].present
                      /\ DisksRawFirst(cfgTree).entries[n].driver = Absent}

\* C30: every entry point rejects a tree in which a disk has no "driver",
\* with an error that names the disk, and none returns a Config with a disk
\* whose driver is empty.
C30_MissingDriverRejected ==
    cfgEntry \notin {"none", "done"} =>
        /\ TreeWasRead /\ OneCollection /\ Driverless # {} =>
               cfgResult.err = "missing 'driver'" /\ cfgResult.disk \in Driverless
        /\ cfgResult.err = "nil" =>
               \A n \in DiskKeys :
                   cfgResult.cfg.Storages.disks[n].present =>
                       cfgResult.cfg.Storages.disks[n].Driver # ""

(***************************************************************************)
(* The default instance (setup.go): the package-level defaultMgr, Setup    *)
(* calls that replace it, DiskWrappers made by Disk(name) and operations   *)
(* on them.  defaultMu guards one pointer, so a Setup and the read in      *)
(* DiskWrapper.storage are single steps; Manager.Disk on the Manager read  *)
(* is one step as well.                                                    *)
(***************************************************************************)
NumCallers == 2        \* goroutines operating on DiskWrappers
MaxSetups == 2         \* Setup calls in one run
MaxWrappers == 2       \* DiskWrappers made in one run
MaxOps == 2            \* operations on DiskWrappers in one run
Callers == 1..NumCallers

\* Names handed to Disk(name); "" is what the package-level shortcuts use.
WrapperNames == {"", "a", "b"}
\* The operations of a DiskWrapper that go through d.storage().
Operations == {"Put", "Get", "Delete", "Exists", "URL", "Storage"}

\* The maps handed to Setup: two that parse (the first with a disk whose
\* driver "s3" is not registered), one without a disk collection and one
\* with a disk that has no driver.
SetupMaps ==
    {[default |-> "a",
      disks |-> Collection(Entry("local", "up", NoMap), Entry("s3", "up", NoMap)),
      storages |-> NoCollection],
     [default |-> Absent,
      disks |-> NoCollection,
      storages |-> Collection(Entry("local", Absent, NoMap), NoEntry)],
     EmptyTree,
     [default |-> "a",
      disks |-> Collection(Entry(Absent, "up", NoMap), NoEntry),
      storages |-> NoCollection]}

\* fmt.Errorf("storage: not initialized (call Setup first)")
ErrNotInitialized == [kind |-> "NotInitialized", disk |-> "", cause |-> ""]

IdleCaller == [op |-> "none", wrapper |-> 0, name |-> "", mgr |-> 0, installed |-> 0,
               okSetups |-> 0]

\* The Setup calls so far that returned nil.
Succeeded(log) == {k \in 1..Len(log) : log[k].err = "nil"}

\* Disk(name): &DiskWrapper{name: name}
DiskWrapperNew(name) ==
    /\ Len(wrappers) < MaxWrappers
    /\ wrappers' = Append(wrappers, [name |-> name, madeUnder |-> defaultAt])
    /\ UNCHANGED <<managers, defaultAt, setups, dwPc, dwLoc, opLog, factoryLog, nonDfltVars>>

\* mgr := defaultMgr: the Manager an operation works on is the one the
\* variable holds when d.storage() runs.
WrapperManagerBound(w, cur) == w.madeUnder
WrapperManager(w, cur) == cur

\* An operation on a DiskWrapper, up to the nil check of d.storage().
WrapperOp(p, w, op) ==
    /\ dwPc[p] = "idle"
    /\ Len(opLog) + Cardinality({q \in Callers : dwPc[q] = "disk"}) < MaxOps
    /\ w \in 1..Len(wrappers)
    /\ LET mgr == WrapperManager(wrappers[w], defaultAt)
           l == [op |-> op, wrapper |-> w, name |-> wrappers[w].name, mgr |-> mgr,
                 installed |-> defaultAt, okSetups |-> Cardinality(Succeeded(setups))]
       IN IF mgr = 0
          THEN /\ opLog' = Append(opLog, [call |-> l, disk |-> "", err |-> ErrNotInitialized,
                                          backend |-> NoBackend, invoked |-> FALSE])
               /\ UNCHANGED <<dwPc, dwLoc>>
          ELSE /\ dwLoc' = [dwLoc EXCEPT ![p] = l]
               /\ dwPc' = [dwPc EXCEPT ![p] = "disk"]
               /\ UNCHANGED opLog
    /\ UNCHANGED <<managers, defaultAt, setups, wrappers, factoryLog, nonDfltVars>>

\* return mgr.Disk(d.name), and the operation on the Backend it returns.
\* Manager.Disk: the default name for "", the cached Backend, or the
\* config entry's driver looked up and its factory invoked; the Backend is
\* cached on success.
WrapperDisk(p, ok) ==
    /\ dwPc[p] = "disk"
    /\ LET l == dwLoc[p]
           m == managers[l.mgr]
           n == IF l.name = "" THEN m.config.Default ELSE l.name
           done(err, b, inv) == opLog' = Append(opLog, [call |-> l, disk |-> n, err |-> err,
                                                        backend |-> b, invoked |-> inv])
       IN IF n = ""
          THEN done(ErrNoDefault, NoBackend, FALSE) /\ UNCHANGED <<managers, factoryLog>>
          ELSE IF Cached(m.storages, n)
          THEN done(NoError, m.storages[n], FALSE) /\ UNCHANGED <<managers, factoryLog>>
          ELSE IF ~m.config.Storages.disks[n].present
          THEN done(ErrNotConfigured(n), NoBackend, FALSE) /\ UNCHANGED <<managers, factoryLog>>
          ELSE IF ~Registered(m.config.Storages.disks[n].Driver)
          THEN done(WrapOpenError(n, "UnknownDriver"), NoBackend, FALSE)
               /\ UNCHANGED <<managers, factoryLog>>
          ELSE LET id == Len(factoryLog) + 1
               IN /\ factoryLog' = Append(factoryLog,
                                          [mgr |-> l.mgr, disk |-> n, ok |-> ok,
                                           op |-> Len(opLog) + 1])
                  /\ managers' = [managers EXCEPT
                                     ![l.mgr].storages = StoreResult(@, n, ok, id)]
                  /\ done(IF ok THEN NoError ELSE WrapOpenError(n, "FactoryError"),
                          IF ok THEN id ELSE NoBackend, TRUE)
    /\ dwPc' = [dwPc EXCEPT ![p] = "idle"]
    /\ dwLoc' = [dwLoc EXCEPT ![p] = IdleCaller]
    /\ UNCHANGED <<defaultAt, setups, wrappers, nonDfltVars>>

\* A Setup call of a running program.
SetupAny == \E m \in SetupMaps : Len(setups) < MaxSetups /\ Setup(m)

DefaultInit ==
    /\ managers = <<>>
    /\ defaultAt = 0
    /\ setups = <<>>
    /\ wrappers = <<>>
    /\ dwPc = [p \in Callers |-> "idle"]
    /\ dwLoc = [p \in Callers |-> IdleCaller]
    /\ opLog = <<>>
    /\ factoryLog = <<>>

DefaultNext ==
    \/ SetupAny
    \/ \E name \in WrapperNames : DiskWrapperNew(name)
    \/ \E p \in Callers, w \in 1..MaxWrappers, op \in Operations : WrapperOp(p, w, op)
    \/ \E p \in Callers, ok \in BOOLEAN : WrapperDisk(p, ok)

(***************************************************************************)
(* Properties of the default instance (specification SpecDefault).         *)
(***************************************************************************)
SetupReturned == Len(setups') = Len(setups) + 1
SetupFailed == SetupReturned /\ setups'[Len(setups')].err # "nil"
SetupSucceeded == SetupReturned /\ setups'[Len(setups')].err = "nil"
WrapperMade == Len(wrappers') = Len(wrappers) + 1

\* C31: an operation that found no successful Setup before it fails with
\* the "not initialized" error and gets no Backend; the default Manager is
\* nil exactly until the first successful Setup; it changes only in a Setup
\* call that returns nil, and a Setup call that returns an error leaves the
\* variable, the Managers made so far and their caches as they were.
C31_State ==
    /\ \A k \in 1..Len(opLog) :
          opLog[k].call.okSetups = 0 =>
              opLog[k].err = ErrNotInitialized /\ opLog[k].backend = NoBackend
    /\ (defaultAt = 0) = (Succeeded(setups) = {})
    /\ defaultMgr.present = (defaultAt # 0)
    /\ defaultAt # 0 => managers[defaultAt].config = defaultMgr.config
C31_Step ==
    /\ (defaultAt' # defaultAt \/ defaultMgr' # defaultMgr) => SetupSucceeded
    /\ SetupFailed => UNCHANGED <<defaultAt, defaultMgr, managers>>
C31_ReplacedOnlyBySuccess == []C31_State /\ [][C31_Step]_vars
\* A Setup call failed after a Backend was cached in the installed Manager,
\* and an operation had failed before the first Setup.
C31_Witness ==
    /\ Len(setups) = 2
    /\ setups[1].err = "nil"
    /\ setups[2].err # "nil"
    /\ defaultAt = 1
    /\ Cached(managers[1].storages, "a")
    /\ Len(opLog) = 2
    /\ opLog[1].err = ErrNotInitialized
    /\ opLog[2].err = NoError

\* The operations that resolved disk n of Manager i, and the factory
\* invocations for it.
OpsOn(i, n) == {k \in 1..Len(opLog) : opLog[k].call.mgr = i /\ opLog[k].disk = n}
FactoryCallsOn(i, n) ==
    {f \in 1..Len(factoryLog) : factoryLog[f].mgr = i /\ factoryLog[f].disk = n}
Least(S) == CHOOSE x \in S : \A y \in S : x <= y
Parses(m) ==
    /\ DisksRawFirst(m).present
    /\ \A n \in DiskKeys :
          DisksRawFirst(m).entries[n].present => DisksRawFirst(m).entries[n].driver # Absent
Openable(i, n) ==
    /\ n \in DiskKeys
    /\ managers[i].config.Storages.disks[n].present
    /\ Registered(managers[i].config.Storages.disks[n].Driver)

\* C32: a step of Setup or of Disk(name) invokes no factory, and the Manager
\* a Setup installs has an empty cache; Setup returns nil for every map that
\* parses, whatever drivers it names; the factory of a disk with a
\* registered driver is invoked by the first operation that resolves the
\* disk and by none before it; every operation works on the Manager that
\* was installed when it ran.
C32_State ==
    /\ \A s \in 1..Len(setups) : Parses(setups[s].tree) => setups[s].err = "nil"
    /\ \A k \in 1..Len(opLog) : opLog[k].call.mgr = opLog[k].call.installed
    /\ \A i \in 1..Len(managers), n \in DiskKeys :
          /\ FactoryCallsOn(i, n) # {} =>
                /\ OpsOn(i, n) # {}
                /\ factoryLog[Least(FactoryCallsOn(i, n))].op = Least(OpsOn(i, n))
          /\ (Openable(i, n) /\ OpsOn(i, n) # {}) => opLog[Least(OpsOn(i, n))].invoked
          /\ Cached(managers[i].storages, n) => FactoryCallsOn(i, n) # {}
C32_Step ==
    /\ (SetupReturned \/ WrapperMade) => UNCHANGED factoryLog
    /\ SetupSucceeded => \A n \in DiskKeys : ~Cached(managers'[defaultAt'].storages, n)
C32_LazyAndLate == []C32_State /\ [][C32_Step]_vars
\* A DiskWrapper made under the first Manager was used under the second,
\* whose factory it invoked; the Setup that installed the second named an
\* unregistered driver.
C32_Witness ==
    /\ Len(setups) = 2
    /\ Succeeded(setups) = {1, 2}
    /\ \E n \in DiskKeys :
          /\ managers[2].config.Storages.disks[n].present
          /\ ~Registered(managers[2].config.Storages.disks[n].Driver)
    /\ \E k \in 1..Len(opLog) :
          /\ wrappers[opLog[k].call.wrapper].madeUnder = 1
          /\ opLog[k].call.mgr = 2
          /\ opLog[k].invoked
          /\ opLog[k].err = NoError

(***************************************************************************)
(* ProgressReader (helpers.go): a reader that counts the bytes its         *)
(* underlying reader returns and reports them to a callback.               *)
(***************************************************************************)
MaxReads == 3          \* Read calls on one ProgressReader
MaxChunk == 2          \* the most bytes one underlying Read returns

\* What the underlying reader's Read may return: 0 <= n <= len(p) with any
\* error, io.EOF together with the last bytes included.
ReadErrors == {"nil", "EOF", "unexpected EOF"}
ReadResult(n, err) == [n |-> n, err |-> err]
\* The total the caller declares: any int64, right or wrong.
Totals == {-1, 0, 2, 5}

\* if n > 0 { ... }
CountedAlways(n) == n >= 0
Counted(n) == n > 0

\* pr.Read(p): the underlying Read returns (n, err); the count and the
\* callback; return n, err.
ProgressRead(n, err) ==
    /\ Len(prReads) < MaxReads
    /\ prReads' = Append(prReads, ReadResult(n, err))
    /\ IF Counted(n)
       THEN /\ prUploaded' = prUploaded + n
            /\ prCalls' = IF prHasFn
                          THEN Append(prCalls, [uploaded |-> prUploaded', total |-> prTotal,
                                                during |-> Len(prReads')])
                          ELSE prCalls
       ELSE UNCHANGED <<prUploaded, prCalls>>
    /\ prReturns' = Append(prReturns, ReadResult(n, err))
    /\ UNCHANGED <<prTotal, prHasFn, nonProgVars>>

\* NewProgressReader(r, total, fn)
ProgressInit ==
    /\ prTotal \in Totals
    /\ prHasFn \in BOOLEAN
    /\ prUploaded = 0
    /\ prReads = <<>>
    /\ prReturns = <<>>
    /\ prCalls = <<>>

ProgressNext == \E n \in 0..MaxChunk, err \in ReadErrors : ProgressRead(n, err)

(***************************************************************************)
(* Properties of ProgressReader (specification SpecProgress).              *)
(***************************************************************************)
\* The reads of the underlying reader that returned bytes, by position.
PositiveReads == SelectSeq([i \in 1..Len(prReads) |-> i], LAMBDA i : prReads[i].n > 0)
RECURSIVE BytesUpTo(_)
BytesUpTo(k) == IF k = 0 THEN 0 ELSE BytesUpTo(k - 1) + prReads[k].n

\* C33: with a callback, each read that returned n > 0 bytes is followed by
\* one invocation with the bytes read so far and the declared total, a read
\* of 0 bytes by none; the reported counts increase strictly and the last
\* one is the sum of all bytes returned; every Read returns the (n, err) of
\* the underlying Read.
C33_ProgressReported ==
    /\ prHasFn =>
          /\ Len(prCalls) = Len(PositiveReads)
          /\ \A k \in 1..Len(prCalls) :
                /\ prCalls[k].during = PositiveReads[k]
                /\ prCalls[k].uploaded = BytesUpTo(PositiveReads[k])
                /\ prCalls[k].total = prTotal
          /\ \A k \in 1..(Len(prCalls) - 1) : prCalls[k].uploaded < prCalls[k + 1].uploaded
          /\ prCalls # <<>> => prCalls[Len(prCalls)].uploaded = BytesUpTo(Len(prReads))
    /\ prReturns = prReads
C33_Witness ==
    /\ prHasFn
    /\ Len(prReads) = 3
    /\ prReads[1] = ReadResult(1, "nil")
    /\ prReads[2] = ReadResult(0, "nil")
    /\ prReads[3] = ReadResult(2, "EOF")
    /\ Len(prCalls) = 2
    /\ prCalls[2].uploaded = 3
    /\ prReturns[3] = ReadResult(2, "EOF")

(***************************************************************************)
(* Specifications.  Spec: goroutines calling Disk and Close on one         *)
(* Manager.  SpecBatch: one BatchUpload / BatchDelete call.                *)
(* SpecRegistry: goroutines calling Register, Open and Drivers.            *)
(* SpecOpen: Disk calls on a Manager while a driver is being registered.   *)
(* SpecDeleteAll: one DeleteAll call, its BatchDelete included;            *)
(* SpecDeleteAllLocal: the same on the local backend.                      *)
(* SpecRetry: one Retry call.  SpecEnv: one expandEnvVars call.            *)
(* SpecConfig: one call of a configuration entry point.                    *)
(* SpecProgress: Read calls on one ProgressReader.                         *)
(* SpecDefault: Setup calls and operations on the default instance.        *)
(***************************************************************************)
\* No batch call is running.
BatchQuiet ==
    /\ kind = "upload"
    /\ nItems = 0
    /\ concurrency = 0
    /\ ctxDone = FALSE
    /\ bpc = "start"
    /\ idx = 1
    /\ sem = 0
    /\ wg = 0
    /\ bmu = FreeMu
    /\ wpc = [i \in Workers |-> "none"]
    /\ outcome = [i \in Workers |-> "none"]
    /\ result = EmptyResult
    /\ ops = [i \in Workers |-> 0]
    /\ lateAdmit = {}
    /\ preCancelled = FALSE

\* A Manager nobody calls.
MgrIdle ==
    /\ config = [Default |-> "a", Storages |-> ConfigStorages]
    /\ storages = EmptyCache
    /\ mu = [writer |-> NoProc, readers |-> {}]
    /\ pc = [p \in Procs |-> "idle"]
    /\ loc = [p \in Procs |-> IdleLoc]
    /\ built = <<>>
    /\ factoryCalls = [n \in Configured |-> 0]
    /\ closeCalls = 0
    /\ quiet = FALSE
    /\ unknownSeen = {}

\* No registry call is running.
RegistryQuiet ==
    /\ driversMu = FreeRW
    /\ rpc = [p \in RegProcs |-> "idle"]
    /\ rloc = [p \in RegProcs |-> IdleReg]
    /\ writes = <<>>

MgrQuiet == MgrIdle /\ drivers = [local |-> "f1", s3 |-> NoFactory]

\* No DeleteAll call is running.
DeleteAllQuiet ==
    /\ hasList = FALSE
    /\ backend = "paged"
    /\ nKeys = 0
    /\ pageSize = 1
    /\ dpc = "returned"
    /\ marker = NoMarker
    /\ allKeys = <<>>
    /\ listCalls = <<>>
    /\ dresult = NoReturn

\* No Retry call is running.
RetryQuiet ==
    /\ retryMax = 0
    /\ retryCtx = FALSE
    /\ retryPc = "returned"
    /\ retryI = 0
    /\ retryLog = <<>>
    /\ retryLastErr = 0
    /\ retryDelay = Zero
    /\ retryResult = RetryPending
    /\ retryCancelledAt = <<>>

\* No expandEnvVars call is running.
EnvQuiet ==
    /\ envIn = <<>>
    /\ envVal = Unset
    /\ envPieces = <<>>
    /\ envOut = <<>>
    /\ envPc = "done"

\* No configuration entry point is called.
ConfigQuiet ==
    /\ cfgTree = EmptyTree
    /\ cfgFile = [readable |-> FALSE, ext |-> ".yaml", key |-> ""]
    /\ cfgKey = ""
    /\ cfgEntry = "done"
    /\ cfgResult = NoResult
    /\ defaultMgr = NoManager

\* No ProgressReader is in use.
ProgressQuiet ==
    /\ prTotal = 0
    /\ prHasFn = FALSE
    /\ prUploaded = 0
    /\ prReads = <<>>
    /\ prReturns = <<>>
    /\ prCalls = <<>>

\* Nothing uses the default instance.
DefaultQuiet == DefaultInit

\* None of the helpers is running.
AuxQuiet == RetryQuiet /\ EnvQuiet /\ ConfigQuiet /\ ProgressQuiet /\ DefaultQuiet

Init == MgrInit /\ RegistryQuiet /\ BatchQuiet /\ DeleteAllQuiet /\ AuxQuiet
Next == MgrNext
Spec == Init /\ [][Next]_vars

InitBatch == MgrQuiet /\ RegistryQuiet /\ BatchInit /\ DeleteAllQuiet /\ AuxQuiet
NextBatch == BatchNext
SpecBatch == InitBatch /\ [][NextBatch]_vars

\* The steps of the call itself: every step but the caller's cancel().
BatchProgress ==
    \/ BatchCall
    \/ SelectDone
    \/ MainLock
    \/ MainAppend
    \/ Admit
    \/ LoopExit
    \/ WaitReturn
    \/ \E i \in Workers : WorkerInvoke(i)
    \/ \E i \in Workers, ok \in BOOLEAN : WorkerOpReturn(i, ok)
    \/ \E i \in Workers : WorkerLock(i)
    \/ \E i \in Workers : WorkerAppend(i)
    \/ \E i \in Workers : WorkerRelease(i)
    \/ \E i \in Workers : WorkerDone(i)

\* The scheduler runs a goroutine that can take a step, and a backend
\* operation that was invoked returns.
SpecBatchLive == SpecBatch /\ WF_vars(BatchProgress)

\* The Manager of a program whose only init function has registered
\* "local"; "s3" is registered later, while Disk calls are running.
InitOpen ==
    /\ MgrIdle
    /\ drivers = [local |-> "f1", s3 |-> NoFactory]
    /\ driversMu = FreeRW
    /\ rpc = [p \in RegProcs |-> "idle"]
    /\ rloc = [p \in RegProcs |-> IdleReg]
    /\ writes = <<[name |-> "local", f |-> "f1", how |-> "ok", stored |-> TRUE]>>
    /\ BatchQuiet
    /\ DeleteAllQuiet
    /\ AuxQuiet
NextOpen ==
    \/ \E p \in Procs :
          \/ \E arg \in DiskArgs : DiskCall(p, arg)
          \/ DiskRLock(p)
          \/ DiskFastPath(p)
          \/ DiskReturn(p)
          \/ DiskLock(p)
          \/ DiskDoubleCheck(p)
          \/ DiskOpen(p)
          \/ \E ok \in BOOLEAN : DiskFactoryReturn(p, ok)
          \/ Unlock(p)
    \/ \E f \in Factories : RegisterCall(Registrar, "s3", f)
    \/ RegisterLock(Registrar)
    \/ RegisterBody(Registrar)
    \/ RegistryReturn(Registrar)
SpecOpen == InitOpen /\ [][NextOpen]_vars

InitRegistry == MgrIdle /\ RegistryInit /\ BatchQuiet /\ DeleteAllQuiet /\ AuxQuiet
NextRegistry == RegistryNext
SpecRegistry == InitRegistry /\ [][NextRegistry]_vars

InitDeleteAll == MgrQuiet /\ RegistryQuiet /\ DeleteAllInit /\ AuxQuiet
NextDeleteAll == DeleteAllNext
SpecDeleteAll == InitDeleteAll /\ [][NextDeleteAll]_vars

InitDeleteAllLocal == MgrQuiet /\ RegistryQuiet /\ DeleteAllLocalInit /\ AuxQuiet
SpecDeleteAllLocal == InitDeleteAllLocal /\ [][NextDeleteAll]_vars

InitRetry ==
    /\ MgrQuiet /\ RegistryQuiet /\ BatchQuiet /\ DeleteAllQuiet /\ RetryInit
    /\ EnvQuiet /\ ConfigQuiet /\ ProgressQuiet /\ DefaultQuiet
NextRetry == RetryNext
SpecRetry == InitRetry /\ [][NextRetry]_vars

InitEnv ==
    /\ MgrQuiet /\ RegistryQuiet /\ BatchQuiet /\ DeleteAllQuiet /\ RetryQuiet
    /\ EnvInit /\ ConfigQuiet /\ ProgressQuiet /\ DefaultQuiet
NextEnv == EnvNext
SpecEnv == InitEnv /\ [][NextEnv]_vars

InitConfig ==
    /\ MgrQuiet /\ RegistryQuiet /\ BatchQuiet /\ DeleteAllQuiet /\ RetryQuiet
    /\ EnvQuiet /\ ConfigInit /\ ProgressQuiet /\ DefaultQuiet
NextConfig == ConfigNext
SpecConfig == InitConfig /\ [][NextConfig]_vars

InitProgress ==
    /\ MgrQuiet /\ RegistryQuiet /\ BatchQuiet /\ DeleteAllQuiet /\ RetryQuiet
    /\ EnvQuiet /\ ConfigQuiet /\ ProgressInit /\ DefaultQuiet
NextProgress == ProgressNext
SpecProgress == InitProgress /\ [][NextProgress]_vars

\* A program that has not called Setup yet.
InitDefault ==
    /\ MgrQuiet /\ RegistryQuiet /\ BatchQuiet /\ DeleteAllQuiet /\ RetryQuiet
    /\ EnvQuiet /\ ProgressQuiet /\ DefaultInit
    /\ cfgTree = EmptyTree
    /\ cfgFile = [readable |-> FALSE, ext |-> ".yaml", key |-> ""]
    /\ cfgKey = ""
    /\ cfgEntry = "none"
    /\ cfgResult = NoResult
    /\ defaultMgr = NoManager
NextDefault == DefaultNext
SpecDefault == InitDefault /\ [][NextDefault]_vars

====
